---- MODULE Spec2Model ----
(***************************************************************************)
(* Reliable chunked file transport of udp-hole-punching                    *)
(* (src/src/file_transfer/*.rs driven by src/src/operation.rs).            *)
(*                                                                         *)
(* A sender process and a receiver process exchange datagrams over an      *)
(* unreliable network.  Each handler of the code (one received datagram,   *)
(* one timer expiry) is one atomic step, including every datagram it       *)
(* sends.  A datagram sent may be lost; a datagram in flight may be        *)
(* delivered in any order and more than once.                              *)
(***************************************************************************)
EXTENDS Integers, Sequences, FiniteSets, TLC

\* ------------------------------------------------------------------ bounds
\* The code's BLOCK_SIZE is 1048576 and CHUNK_SIZE is 496 (receive.rs:14,17);
\* the model runs the same arithmetic on scaled-down sizes.
BLOCK_SIZE == 3
CHUNK_SIZE == 2
\* File sizes and pre-existing .part sizes explored.
MaxFileSize == 7
\* Block size, in one-byte chunks, of the sessions that fragment missing lists.
FragBlockSize == 202
\* Seconds by which the server's clock is seen to advance, and how often.
TickSecs == 300
MaxTicks == 4

\* ------------------------------------------------------- program constants
RETRY_COUNT == 3
WordBits == 64
\* u32::MAX, the value of an underflowing `q as u32 - 1` in a release build.
\* TLC's integers are 32-bit signed: the model uses its largest integer, which
\* like u32::MAX lies above every block and chunk index.
U32_MAX == 2147483647

Min(a, b) == IF a < b THEN a ELSE b
Range(s) == {s[i] : i \in 1..Len(s)}

\* A byte of memory or of a file that nothing has written yet.
Uninit == 0 - 1
\* A file is [exists, data]: data is the sequence of its bytes.
NoFile == [exists |-> FALSE, data |-> <<>>]
File(data) == [exists |-> TRUE, data |-> data]
\* An Option<Vec<u32>>.
None == [some |-> FALSE, v |-> <<>>]
Some(v) == [some |-> TRUE, v |-> v]

\* The sender's file: the byte at offset i (0-based).
FileByte(i) == i + 1
SourceFile(size) == [k \in 1..size |-> FileByte(k - 1)]
\* Content of a .part left behind by an earlier run: differs from the source
\* at every offset.
StaleByte(i) == 0 - (i + 2)
StalePart(size) == [k \in 1..size |-> StaleByte(k - 1)]

\* ---------------------------------------------------------------- BitArray
\* A u64 word is the set of its bit positions that are 1 (bit i has weight
\* 2^i); vec is the sequence of words, len the number of bits in use.
AllOnes == 0..(WordBits - 1)

VecLen(len) == len \div WordBits + Min(len % WordBits, 1)

\* Mutant: the padding bits of the last word stay 0.
fill_unused_Skip(ba) == ba
\* u64::MAX >> (64 - unused) written over the last word.
fill_unused(ba) ==
  LET unused == Len(ba.vec) * WordBits - ba.len
  IN  IF unused > 0
      THEN [ba EXCEPT !.vec[Len(ba.vec)] = 0..(unused - 1)]
      ELSE ba

BitArrayDefault == [vec |-> <<>>, len |-> 0]

\* BitArray::new.
BitArray_new(len) ==
  fill_unused([vec |-> [i \in 1..VecLen(len) |-> {}], len |-> len])

reset(ba, len) ==
  fill_unused([vec |-> [i \in 1..VecLen(len) |-> {}], len |-> len])

is_set(ba, index) ==
  (WordBits - 1 - (index % WordBits)) \in ba.vec[index \div WordBits + 1]

set(ba, index) ==
  [ba EXCEPT !.vec[index \div WordBits + 1] =
               @ \cup {WordBits - 1 - (index % WordBits)}]

\* Mutant: the scan starts at i = 62 and never reports the word's first bit.
WordUnset_SkipFirst(v, index) ==
  IF v = AllOnes THEN <<>>
  ELSE LET offs == SelectSeq([k \in 1..(WordBits - 1) |-> k],
                             LAMBDA o : (WordBits - 1 - o) \notin v)
       IN  [k \in 1..Len(offs) |-> index * WordBits + offs[k]]
\* The unset bits of word number index (0-based), scanning i = 63 down to 0.
WordUnset(v, index) ==
  IF v = AllOnes THEN <<>>
  ELSE LET offs == SelectSeq([k \in 1..WordBits |-> k - 1],
                             LAMBDA o : (WordBits - 1 - o) \notin v)
       IN  [k \in 1..Len(offs) |-> index * WordBits + offs[k]]

RECURSIVE CollectFrom(_, _)
CollectFrom(vec, k) ==
  IF k > Len(vec) THEN <<>>
  ELSE WordUnset(vec[k], k - 1) \o CollectFrom(vec, k + 1)

collect_unset(ba) == CollectFrom(ba.vec, 1)

\* ------------------------------------------------------- block arithmetic
last_block_index_size(file_size, block_size) ==
  LET q == file_size \div block_size
      r == file_size % block_size
  IN  IF r = 0 THEN <<IF q = 0 THEN U32_MAX ELSE q - 1, block_size>>
      ELSE <<q, r>>

last_chunk_index_size(block_size, chunk_size) ==
  LET q == block_size \div chunk_size
      r == block_size % chunk_size
  IN  IF r = 0 THEN <<IF q = 0 THEN U32_MAX ELSE q - 1, chunk_size>>
      ELSE <<q, r>>

\* ------------------------------------------------------------- file system
\* write_all of data at offset pos of a file's bytes.
WriteAt(file, pos, data) ==
  LET n == IF pos + Len(data) > Len(file) THEN pos + Len(data) ELSE Len(file)
  IN  [k \in 1..n |->
         IF k > pos /\ k <= pos + Len(data) THEN data[k - pos]
         ELSE IF k <= Len(file) THEN file[k] ELSE 0]

\* ---------------------------------------------------------------- messages
Request(size) == [type |-> "Request", size |-> size, resume |-> TRUE]
Response(block_size, chunk_size, start_block) ==
  [type |-> "Response", block_size |-> block_size, chunk_size |-> chunk_size,
   start_block |-> start_block]
\* Chunk::new: the FilePart header followed by the chunk's bytes.
Chunk(block, chunk, data) ==
  [type |-> "FilePart", block |-> block, chunk |-> chunk, data |-> data]
BlockComplete(b) == [type |-> "BlockComplete", block |-> b]
BlockCompleteAck(b) == [type |-> "BlockCompleteAck", block |-> b]
BlockMissingChunk(b, list, count) ==
  [type |-> "BlockMissingChunk", block |-> b, chunk |-> list, count |-> count]
FileComplete == [type |-> "FileComplete"]
FileCompleteAck == [type |-> "FileCompleteAck"]
NoMsg == [type |-> "none"]

\* Socket::recv decodes with reject_trailing_bytes: a FilePart followed by its
\* payload does not decode and is skipped.
Decodes(m) == ~(m.type = "FilePart" /\ Len(m.data) > 0)

\* ------------------------------------------------------------- BlockWriter
\* The receiver's record r holds the BlockWriter, the BlockBuffer of the block
\* in progress, the retry driver's counter, and the two files the writer owns:
\* part (the .part file, with the writer's cursor pos) and final.
\* writes is the history of the commits: the file offset of each write_all.

NewReceiver(part) ==
  [pc |-> "ReadRequest", attempt |-> 0, size |-> 0, block |-> 0,
   next_block |-> 0, last_block |-> 0, last_block_size |-> 0,
   block_size |-> 0, chunk_size |-> 0, buf |-> <<>>,
   write_flag |-> BitArrayDefault,
   cur_block_size |-> 0, last_chunk |-> 0, last_chunk_size |-> 0,
   part |-> part, final |-> NoFile, pos |-> 0, writes |-> <<>>]

\* BlockWriter::next_block: some = FALSE is None.
next_block(r) ==
  IF r.next_block > r.last_block THEN [some |-> FALSE, r |-> r]
  ELSE
    LET block_size == IF r.next_block < r.last_block THEN r.block_size
                      ELSE r.last_block_size
        chunk_count == block_size \div r.chunk_size
                         + Min(1, block_size % r.chunk_size)
        lc == last_chunk_index_size(block_size, r.chunk_size)
    IN  [some |-> TRUE,
         r |-> [r EXCEPT !.write_flag = reset(@, chunk_count),
                         !.cur_block_size = block_size,
                         !.last_chunk = lc[1],
                         !.last_chunk_size = lc[2]]]

\* BlockBuffer::index
index(r) == r.next_block

\* BlockBuffer::write; a failed assertion leaves the process in "panic".
write(r, chunk, data) ==
  IF \/ chunk > r.last_chunk
     \/ chunk < r.last_chunk /\ Len(data) # r.chunk_size
     \/ chunk = r.last_chunk /\ Len(data) # r.last_chunk_size
     \/ chunk >= r.write_flag.len
  THEN [r EXCEPT !.pc = "panic"]
  ELSE IF ~is_set(r.write_flag, chunk)
  THEN LET start == r.chunk_size * chunk
       IN  [r EXCEPT !.write_flag = set(@, chunk),
                     !.buf = [k \in 1..Len(@) |->
                                IF k > start /\ k <= start + Len(data)
                                THEN data[k - start] ELSE @[k]]]
  ELSE r

\* BlockBuffer::get_missing_chunk
get_missing_chunk(r) == collect_unset(r.write_flag)

\* Mutant: the block is written but next_block is not advanced.
commit_NoAdvance(r) ==
  [r EXCEPT !.part = File(WriteAt(@.data, r.pos,
                                  SubSeq(r.buf, 1, r.cur_block_size))),
            !.pos = @ + r.cur_block_size,
            !.writes = Append(@, r.pos)]

\* BlockBuffer::commit: advance next_block, write the block at the cursor.
commit(r) ==
  [r EXCEPT !.next_block = @ + 1,
            !.part = File(WriteAt(@.data, r.pos,
                                  SubSeq(r.buf, 1, r.cur_block_size))),
            !.pos = @ + r.cur_block_size,
            !.writes = Append(@, r.pos)]

\* BlockWriter::rename_file / rename_part_file
rename_file(r) == [r EXCEPT !.final = r.part, !.part = NoFile]

\* BlockWriter::new(path, file_size, block_size, chunk_size, resume = true).
\* some = FALSE is Ok(None): the file is already complete.
BlockWriterNew(r, file_size, block_size, chunk_size) ==
  IF file_size = 0
  THEN [some |-> FALSE, r |-> [r EXCEPT !.final = File(<<>>)]]
  ELSE IF r.part.exists /\ Len(r.part.data) = file_size
  THEN [some |-> FALSE, r |-> rename_file(r)]
  ELSE
    LET resumed == r.part.exists /\ Len(r.part.data) < file_size
        nb == IF resumed THEN Len(r.part.data) \div block_size ELSE 0
        lb == last_block_index_size(file_size, block_size)
    IN  [some |-> TRUE,
         r |-> [r EXCEPT !.part = IF resumed THEN @ ELSE File(<<>>),
                         !.pos = nb * block_size,
                         !.next_block = nb,
                         !.last_block = lb[1],
                         !.last_block_size = lb[2],
                         !.block_size = block_size,
                         !.chunk_size = chunk_size,
                         !.buf = [k \in 1..block_size |-> Uninit],
                         !.write_flag = BitArrayDefault]]

\* ------------------------------------------------------------ retry driver
\* perform (operation.rs): at a timer expiry the request is polled again
\* while attempt < RETRY_COUNT; otherwise the operation's result() decides.
\* Mutant: one more retry than RETRY_COUNT.
MayRetry_OneMore(attempt) == attempt <= RETRY_COUNT
MayRetry(attempt) == attempt < RETRY_COUNT

\* ---------------------------------------------------------------- receiver
\* A handler returns [r, out]: the receiver's next record and the datagrams it
\* sends, in order.
Ignore(r) == [r |-> r, out |-> <<>>]

\* Guards of SendResponse::resolve and of the main loop's match arms.
IsFirstChunk(b, block) == b = block
\* Mutant: a FilePart of any block is written into the block in progress.
IsCurrentPart_AnyBlock(b, cur) == TRUE
IsCurrentPart(b, cur) == b = cur
IsCurrentBlock(b, cur) == b = cur
\* b + 1 is computed in u32: at u32::MAX a release build wraps to 0 (a
\* debug build panics, see AddOverflows).
IsPreviousBlock(b, cur) == (IF b = U32_MAX THEN 0 ELSE b + 1) = cur

\* missing.as_slice().chunks(100)
MISSING_PER_MESSAGE == 100
Fragments(missing) ==
  [i \in 1..((Len(missing) + MISSING_PER_MESSAGE - 1) \div MISSING_PER_MESSAGE)
     |-> SubSeq(missing, (i - 1) * MISSING_PER_MESSAGE + 1,
                Min(i * MISSING_PER_MESSAGE, Len(missing)))]

\* Mutant: each datagram carries the length of its own list as count.
MissingReplies_OwnCount(b, missing) ==
  LET f == Fragments(missing)
  IN  [i \in 1..Len(f) |-> BlockMissingChunk(b, f[i], Len(f[i]))]

MissingReplies(b, missing) ==
  LET f == Fragments(missing)
  IN  [i \in 1..Len(f) |-> BlockMissingChunk(b, f[i], Len(missing))]

\* complete(): perform(SendComplete) starts with its first poll.
complete(r) ==
  [r |-> [r EXCEPT !.pc = "SendComplete", !.attempt = 0],
   out |-> <<FileComplete>>]

\* receive(), from the Request to the first poll of SendResponse.
OnRequest(r, m, cfg) ==
  LET w == BlockWriterNew([r EXCEPT !.size = m.size], m.size,
                          cfg.BLOCK_SIZE, cfg.CHUNK_SIZE)
      nb == next_block(w.r)
  IN  IF ~w.some THEN complete(w.r)
      ELSE IF ~nb.some THEN [r |-> [w.r EXCEPT !.pc = "panic"], out |-> <<>>]
      ELSE [r |-> [nb.r EXCEPT !.pc = "SendResponse", !.attempt = 0,
                               !.block = index(nb.r)],
            out |-> <<Response(cfg.BLOCK_SIZE, cfg.CHUNK_SIZE, index(nb.r))>>]

\* Mutant: after the last block the .part is not renamed.
OnBlockComplete_NoRename(r, b) ==
  LET missing == get_missing_chunk(r)
      c == commit(r)
      nb == next_block(c)
      fin == complete(c)
  IN  IF missing = <<>>
      THEN IF nb.some THEN [r |-> nb.r, out |-> <<BlockCompleteAck(b)>>]
           ELSE [r |-> fin.r, out |-> <<BlockCompleteAck(b)>> \o fin.out]
      ELSE [r |-> r, out |-> MissingReplies(b, missing)]
\* Main loop, BlockComplete(b) with b == block.index().
OnBlockComplete(r, b) ==
  LET missing == get_missing_chunk(r)
      c == commit(r)
      nb == next_block(c)
      fin == complete(rename_file(c))
  IN  IF missing = <<>>
      THEN IF nb.some THEN [r |-> nb.r, out |-> <<BlockCompleteAck(b)>>]
           ELSE [r |-> fin.r, out |-> <<BlockCompleteAck(b)>> \o fin.out]
      ELSE [r |-> r, out |-> MissingReplies(b, missing)]

\* One datagram m received by the receiver in record r.
RHandle(r, m, cfg) ==
  CASE r.pc = "ReadRequest" ->
         IF Decodes(m) /\ m.type = "Request" THEN OnRequest(r, m, cfg)
         ELSE Ignore(r)
    [] r.pc = "SendResponse" ->
         IF m.type = "FilePart" /\ IsFirstChunk(m.block, r.block)
         THEN [r |-> write([r EXCEPT !.pc = "MainLoop"], m.chunk, m.data),
               out |-> <<>>]
         ELSE Ignore(r)
    [] r.pc = "MainLoop" ->
         IF m.type = "FilePart"
         THEN IF IsCurrentPart(m.block, index(r))
              THEN [r |-> write(r, m.chunk, m.data), out |-> <<>>]
              ELSE Ignore(r)
         ELSE IF m.type = "BlockComplete" /\ IsCurrentBlock(m.block, index(r))
         THEN OnBlockComplete(r, m.block)
         ELSE IF m.type = "BlockComplete" /\ IsPreviousBlock(m.block, index(r))
         THEN [r |-> r, out |-> <<BlockCompleteAck(m.block)>>]
         ELSE Ignore(r)
    [] r.pc = "SendComplete" ->
         IF Decodes(m) /\ m.type = "FileCompleteAck"
         THEN [r |-> [r EXCEPT !.pc = "done"], out |-> <<>>]
         ELSE Ignore(r)
    [] OTHER -> Ignore(r)

\* The main loop evaluates b + 1 for a BlockComplete(b) that is not of the
\* block in progress: with b = u32::MAX the addition overflows.
AddOverflows(r, m) ==
  /\ r.pc = "MainLoop"
  /\ m.type = "BlockComplete"
  /\ ~IsCurrentBlock(m.block, index(r))
  /\ m.block = U32_MAX

\* Mutant: SendComplete has no result(), its spent budget is a timeout.
RTimer_NoResult(r, cfg) ==
  CASE r.pc \in {"SendResponse", "SendComplete"} ->
         IF MayRetry(r.attempt)
         THEN [r |-> [r EXCEPT !.attempt = @ + 1],
               out |-> IF r.pc = "SendComplete" THEN <<FileComplete>>
                       ELSE <<Response(cfg.BLOCK_SIZE, cfg.CHUNK_SIZE,
                                       r.block)>>]
         ELSE [r |-> [r EXCEPT !.pc = "error"], out |-> <<>>]
    [] OTHER -> [r |-> [r EXCEPT !.pc = "error"], out |-> <<>>]
\* A timer of the receiver expires: READ_TIMEOUT in read_request and in the
\* main loop, RETRY_DURATION inside perform.
RTimer(r, cfg) ==
  CASE r.pc = "SendResponse" ->
         IF MayRetry(r.attempt)
         THEN [r |-> [r EXCEPT !.attempt = @ + 1],
               out |-> <<Response(cfg.BLOCK_SIZE, cfg.CHUNK_SIZE, r.block)>>]
         ELSE [r |-> [r EXCEPT !.pc = "error"], out |-> <<>>]
    [] r.pc = "SendComplete" ->
         IF MayRetry(r.attempt)
         THEN [r |-> [r EXCEPT !.attempt = @ + 1], out |-> <<FileComplete>>]
         ELSE [r |-> [r EXCEPT !.pc = "done"], out |-> <<>>]
    [] OTHER -> [r |-> [r EXCEPT !.pc = "error"], out |-> <<>>]

\* ------------------------------------------------------------------ sender
\* The sender's record s holds the BlockReader (with its file cursor pos and
\* the block it has read into buf), the SendBlockComplete operation in
\* progress (block, missing_chunk) and the retry driver's counter;
\* start_block is the start block of the Response, acked the history of the
\* blocks whose BlockCompleteAck ended their SendBlockComplete.
NewSender(file_size) ==
  [pc |-> "Start", attempt |-> 0, file_size |-> file_size,
   block_size |-> 0, chunk_size |-> 0, next_block |-> 0, last_block |-> 0,
   last_block_size |-> 0, pos |-> 0, buf |-> <<>>,
   block |-> 0, missing_chunk |-> None, start_block |-> 0, acked |-> {}]

\* Block::get_chunk: some = FALSE is None.
get_chunk(s, c) ==
  LET start == s.chunk_size * c
      end == Min(start + s.chunk_size, Len(s.buf))
  IN  IF start < Len(s.buf) THEN Some(SubSeq(s.buf, start + 1, end))
      ELSE None

\* Block::chunks: the block's chunks in ascending order.
chunks(s) ==
  [i \in 1..((Len(s.buf) + s.chunk_size - 1) \div s.chunk_size) |->
     SubSeq(s.buf, (i - 1) * s.chunk_size + 1,
            Min(i * s.chunk_size, Len(s.buf)))]

\* SendBlockComplete::new followed by perform's first poll.
StartBlockComplete(s) ==
  [s |-> [s EXCEPT !.pc = "SendBlockComplete", !.attempt = 0,
                   !.missing_chunk = None],
   out |-> <<BlockComplete(s.block)>>]

\* send(): reader.read() and, for a block, send_block up to the first
\* BlockComplete; without a block, the wait for FileComplete.
ReadNext(s) ==
  LET len == IF s.next_block < s.last_block THEN s.block_size
             ELSE s.last_block_size
      rd == [s EXCEPT !.buf = [k \in 1..len |-> FileByte(s.pos + k - 1)],
                      !.pos = @ + len,
                      !.block = s.next_block,
                      !.next_block = @ + 1]
      ch == chunks(rd)
      bc == StartBlockComplete(rd)
  IN  IF s.next_block > s.last_block
      THEN [s |-> [s EXCEPT !.pc = "WaitComplete"], out |-> <<>>]
      ELSE IF s.pos + len > s.file_size
      THEN [s |-> [s EXCEPT !.pc = "error"], out |-> <<>>]
      ELSE [s |-> bc.s,
            out |-> [i \in 1..Len(ch) |-> Chunk(rd.block, i - 1, ch[i])]
                      \o bc.out]

\* Mutant: the reader ignores the Response's start_block.
OnResponse_FromZero(s, resp) ==
  LET lb == last_block_index_size(s.file_size, resp.block_size)
  IN  ReadNext([s EXCEPT !.block_size = resp.block_size,
                         !.chunk_size = resp.chunk_size,
                         !.next_block = 0,
                         !.start_block = resp.start_block,
                         !.pos = 0,
                         !.last_block = lb[1],
                         !.last_block_size = lb[2]])

\* BlockReader::new with the Response's sizes, then the first block.
OnResponse(s, resp) ==
  LET lb == last_block_index_size(s.file_size, resp.block_size)
  IN  ReadNext([s EXCEPT !.block_size = resp.block_size,
                         !.chunk_size = resp.chunk_size,
                         !.next_block = resp.start_block,
                         !.start_block = resp.start_block,
                         !.pos = resp.start_block * resp.block_size,
                         !.last_block = lb[1],
                         !.last_block_size = lb[2]])

\* send_block after perform(SendBlockComplete) returned Ok(missing): an empty
\* list ends the block; otherwise the listed chunks are sent again and a new
\* SendBlockComplete starts.  A chunk outside the block panics.
AfterBlockComplete(s, missing) ==
  LET bad == {i \in 1..Len(missing) : ~get_chunk(s, missing[i]).some}
      n == IF bad = {} THEN Len(missing)
           ELSE (CHOOSE i \in bad : \A j \in bad : i <= j) - 1
      resent == [i \in 1..n |->
                   Chunk(s.block, missing[i], get_chunk(s, missing[i]).v)]
      bc == StartBlockComplete(s)
  IN  IF missing = <<>> THEN ReadNext(s)
      ELSE IF bad # {}
      THEN [s |-> [s EXCEPT !.pc = "panic", !.missing_chunk = None],
            out |-> resent]
      ELSE [s |-> bc.s, out |-> resent \o bc.out]

\* Mutant: the arms take a message of any block.
IsOwnBlock_Any(b, block) == TRUE
\* Guard of SendBlockComplete::resolve's two arms.
IsOwnBlock(b, block) == b = block
\* SendBlockComplete::resolve: the accumulated list is returned when its
\* length equals the count of the fragment just received.
\* Mutant: the list is returned as soon as anything was accumulated.
ListComplete_AnyFragment(v, count) == Len(v) >= 1
ListComplete(v, count) == Len(v) = count

\* One datagram m received by the sender in record s.
SHandle(s, m) ==
  CASE s.pc = "SendRequest" /\ Decodes(m) /\ m.type = "Response" ->
         OnResponse(s, m)
    [] s.pc = "SendRequest" /\ Decodes(m) /\ m.type = "FileComplete" ->
         [s |-> [s EXCEPT !.pc = "done"], out |-> <<FileCompleteAck>>]
    [] s.pc = "SendBlockComplete" /\ Decodes(m)
         /\ m.type = "BlockCompleteAck" /\ IsOwnBlock(m.block, s.block) ->
         AfterBlockComplete([s EXCEPT !.missing_chunk = None,
                                      !.acked = @ \cup {m.block}], <<>>)
    [] s.pc = "SendBlockComplete" /\ Decodes(m)
         /\ m.type = "BlockMissingChunk" /\ IsOwnBlock(m.block, s.block) ->
         LET v == s.missing_chunk.v \o m.chunk
         IN  IF ListComplete(v, m.count)
             THEN AfterBlockComplete([s EXCEPT !.missing_chunk = None], v)
             ELSE [s |-> [s EXCEPT !.missing_chunk = Some(v)], out |-> <<>>]
    [] s.pc = "WaitComplete" /\ Decodes(m) /\ m.type = "FileComplete" ->
         [s |-> [s EXCEPT !.pc = "done"], out |-> <<FileCompleteAck>>]
    [] OTHER -> [s |-> s, out |-> <<>>]

\* SendBlockComplete::result: missing_chunk.take()
result(s) == s.missing_chunk

\* A timer of the sender expires.
STimer(s) ==
  CASE s.pc = "SendRequest" ->
         IF MayRetry(s.attempt)
         THEN [s |-> [s EXCEPT !.attempt = @ + 1],
               out |-> <<Request(s.file_size)>>]
         ELSE [s |-> [s EXCEPT !.pc = "error"], out |-> <<>>]
    [] s.pc = "SendBlockComplete" ->
         IF MayRetry(s.attempt)
         THEN [s |-> [s EXCEPT !.attempt = @ + 1],
               out |-> <<BlockComplete(s.block)>>]
         ELSE IF result(s).some
         THEN AfterBlockComplete([s EXCEPT !.missing_chunk = None],
                                 result(s).v)
         ELSE [s |-> [s EXCEPT !.pc = "error"], out |-> <<>>]
    [] OTHER -> [s |-> [s EXCEPT !.pc = "error"], out |-> <<>>]

\* ------------------------------------------------------------------- state
VARIABLES
  snd,      \* the sender's record
  rcv,      \* the receiver's record (with its files)
  toR,      \* datagrams in flight to the receiver
  toS,      \* datagrams in flight to the sender
  conf,     \* the receiver's BLOCK_SIZE and CHUNK_SIZE
  faults,   \* what the network of this run may do: "part_loss" loses
            \* FilePart datagrams only and delivers every other datagram once,
            \* with timers expiring only when nothing is left to wait for;
            \* "any" may lose, delay, reorder and duplicate every datagram
  part0,    \* the .part file found at the start of the session
  ev,       \* history: the last step (who, what it received, what it sent)
  perf,     \* one call of perform: the operation, the driver's position and
            \* counters, and what it returned
  srv,      \* the rendezvous server: registry, GC timestamp, clock, last step
  wire,     \* rendezvous datagrams in flight
  peer,     \* the peers of a rendezvous: initiator, responder, punch tasks
  calc      \* one evaluation of a function of the library: its input, what
            \* was done to it and the result

vars ==
  <<snd, rcv, toR, toS, conf, faults, part0, ev, perf, srv, wire, peer, calc>>
\* Everything but calc.
prog_vars ==
  <<snd, rcv, toR, toS, conf, faults, part0, ev, perf, srv, wire, peer>>
\* The variables of a file transfer session, and the others.
file_vars == <<snd, rcv, toR, toS, conf, faults, part0, ev, calc>>
rest_vars == <<perf, srv, wire, peer, calc>>
\* perform, server and peers are not part of a file transfer session.
NoPerform == [pc |-> "none"]
NoServer == [pc |-> "none"]
NoPeers == [pc |-> "none"]
NoCalc == [pc |-> "none"]
RestIdle ==
  /\ perf = NoPerform
  /\ srv = NoServer
  /\ wire = {}
  /\ peer = NoPeers
  /\ calc = NoCalc

NoEvent == [actor |-> "none", kind |-> "none", msg |-> NoMsg, sent |-> <<>>]
Event(actor, kind, msg, sent) ==
  [actor |-> actor, kind |-> kind, msg |-> msg, sent |-> sent]

\* perform's attempt counter lives only while the operation runs.
InPerform(pc) ==
  pc \in {"SendRequest", "SendBlockComplete", "SendResponse", "SendComplete"}
Settle(p) == IF InPerform(p.pc) THEN p ELSE [p EXCEPT !.attempt = 0]

Terminated(pc) == pc \in {"done", "error", "panic"}
SenderWaits == snd.pc \in {"SendRequest", "SendBlockComplete", "WaitComplete"}
ReceiverWaits ==
  rcv.pc \in {"ReadRequest", "SendResponse", "MainLoop", "SendComplete"}

\* Nothing is in flight to a process that still runs, and no process is about
\* to send of its own accord.
Quiescent ==
  /\ snd.pc # "Start"
  /\ toR = {} \/ Terminated(rcv.pc)
  /\ toS = {} \/ Terminated(snd.pc)

\* When a timer may expire.  Under "any" a datagram may be late by any amount,
\* so a timer may expire at any time.  Under "part_loss" it expires only when
\* the network is quiescent, and the 5 s READ_TIMEOUT only when the peer has
\* no retry budget (4 x 150 ms) left to spend.
MayExpire(pc, peer_pc) ==
  \/ faults = "any"
  \/ Quiescent /\ (InPerform(pc) \/ ~InPerform(peer_pc))

IsControl(m) == m.type # "FilePart"

\* Under "burst" FilePart datagrams are lost only in the first transmission of
\* a block, which send_block starts from perform(SendRequest) or after the
\* previous block was acknowledged.
FirstTransmission(out) ==
  \/ snd.pc = "SendRequest"
  \/ \E i \in 1..Len(out) : out[i].type = "FilePart" /\ out[i].block # snd.block

\* The runs lo..hi of positions that a burst may take out of n FilePart
\* datagrams sent back to back: none, all, all but the first, and runs that
\* leave MISSING_PER_MESSAGE or one more than MISSING_PER_MESSAGE missing.
Bursts(n) ==
  {<<1, 0>>, <<1, n>>, <<2, n>>}
    \cup {<<2, hi>> : hi \in {MISSING_PER_MESSAGE + 1, MISSING_PER_MESSAGE + 2}
                             \cap 1..n}

\* The datagrams of out that reach the network.  Under "any" a lost datagram
\* is one that is never delivered; under "part_loss" any subset of the
\* FilePart datagrams is lost when sent; under "burst" a run of the FilePart
\* datagrams of a first transmission and any subset of the BlockMissingChunk
\* datagrams are lost when sent.
Kept(out) ==
  IF faults = "any" THEN {Range(out)}
  ELSE IF faults = "part_loss"
  THEN {k \in SUBSET Range(out) : \A m \in Range(out) \ k : ~IsControl(m)}
  ELSE LET parts == {i \in 1..Len(out) : out[i].type = "FilePart"}
           lists == {i \in 1..Len(out) : out[i].type = "BlockMissingChunk"}
       IN  IF parts # {} /\ FirstTransmission(out)
           THEN {{out[i] : i \in (1..Len(out)) \ (b[1]..b[2])} :
                   b \in Bursts(Cardinality(parts))}
           ELSE {{out[i] : i \in (1..Len(out)) \ lost} : lost \in SUBSET lists}
\* Under "any" a delivered datagram stays in flight: it may arrive again.
Taken(net, m) == IF faults = "any" THEN net ELSE net \ {m}

\* Under "burst" the datagrams that are not lost arrive in the order sent:
\* FilePart datagrams by chunk index, before the BlockComplete that follows
\* them, and BlockMissingChunk datagrams by their first entry.
Before(o, m) ==
  \/ o.type = "FilePart" /\ m.type # "FilePart"
  \/ o.type = "FilePart" /\ m.type = "FilePart" /\ o.chunk < m.chunk
  \/ /\ o.type = "BlockMissingChunk" /\ m.type = "BlockMissingChunk"
     /\ o.chunk[1] < m.chunk[1]
Deliverable(net) ==
  IF faults = "burst" THEN {m \in net : \A o \in net : ~Before(o, m)}
  ELSE net

Init ==
  /\ \E size \in 0..MaxFileSize : snd = NewSender(size)
  /\ \E p \in {NoFile} \cup {File(StalePart(n)) : n \in 0..(MaxFileSize + 1)} :
       /\ rcv = NewReceiver(p)
       /\ part0 = p
  /\ toR = {}
  /\ toS = {}
  /\ conf = [BLOCK_SIZE |-> BLOCK_SIZE, CHUNK_SIZE |-> CHUNK_SIZE]
  /\ faults \in {"part_loss", "any"}
  /\ ev = NoEvent
  /\ RestIdle

\* send(): perform(SendRequest) polls the Request.
SStart ==
  /\ snd.pc = "Start"
  /\ LET out == <<Request(snd.file_size)>>
     IN  /\ snd' = [snd EXCEPT !.pc = "SendRequest", !.attempt = 0]
         /\ \E kept \in Kept(out) : toR' = toR \cup kept
         /\ ev' = Event("snd", "start", NoMsg, out)
  /\ UNCHANGED <<rcv, toS, conf, faults, part0>>
  /\ UNCHANGED rest_vars

\* The receiver takes a datagram from its socket and handles it.
RRecv ==
  /\ ReceiverWaits
  /\ \E m \in Deliverable(toR) :
       LET res == RHandle(rcv, m, conf)
       IN  /\ rcv' = Settle(res.r)
           /\ toR' = Taken(toR, m)
           /\ \E kept \in Kept(res.out) : toS' = toS \cup kept
           /\ ev' = Event("rcv", "recv", m, res.out)
  /\ UNCHANGED <<snd, conf, faults, part0>>
  /\ UNCHANGED rest_vars

\* A timer of the receiver expires.
RTimeout ==
  /\ ReceiverWaits
  /\ MayExpire(rcv.pc, snd.pc)
  /\ LET res == RTimer(rcv, conf)
     IN  /\ rcv' = Settle(res.r)
         /\ \E kept \in Kept(res.out) : toS' = toS \cup kept
         /\ ev' = Event("rcv", "timer", NoMsg, res.out)
  /\ UNCHANGED <<snd, toR, conf, faults, part0>>
  /\ UNCHANGED rest_vars

\* The sender takes a datagram from its socket and handles it.
SRecv ==
  /\ SenderWaits
  /\ \E m \in Deliverable(toS) :
       LET res == SHandle(snd, m)
       IN  /\ snd' = Settle(res.s)
           /\ toS' = Taken(toS, m)
           /\ \E kept \in Kept(res.out) : toR' = toR \cup kept
           /\ ev' = Event("snd", "recv", m, res.out)
  /\ UNCHANGED <<rcv, conf, faults, part0>>
  /\ UNCHANGED rest_vars

\* A timer of the sender expires.
STimeout ==
  /\ SenderWaits
  /\ MayExpire(snd.pc, rcv.pc)
  /\ LET res == STimer(snd)
     IN  /\ snd' = Settle(res.s)
         /\ \E kept \in Kept(res.out) : toR' = toR \cup kept
         /\ ev' = Event("snd", "timer", NoMsg, res.out)
  /\ UNCHANGED <<rcv, toS, conf, faults, part0>>
  /\ UNCHANGED rest_vars

Next == SStart \/ RRecv \/ RTimeout \/ SRecv \/ STimeout

\* The messages a peer other than this sender could put on the connected
\* socket while the receiver is in its main loop on block cur.
Foreign(cur) ==
  {Chunk(b, 0, <<FileByte(0)>>) : b \in {cur - 1, cur + 1} \cap Nat}
    \cup {BlockComplete(b) :
            b \in ({cur - 2, cur + 1, cur + 2} \cap Nat) \cup {U32_MAX}}
    \cup {BlockCompleteAck(b) : b \in {cur - 1, cur} \cap Nat}
    \cup {BlockMissingChunk(cur, <<0>>, 1), Request(1),
          Response(BLOCK_SIZE, CHUNK_SIZE, cur), FileComplete,
          FileCompleteAck}

\* The receiver's main loop takes a datagram that this session's sender did
\* not send, in a debug or a release build.
RInject ==
  /\ rcv.pc = "MainLoop"
  /\ \E m \in Foreign(index(rcv)), debug \in BOOLEAN :
       LET res == IF debug /\ AddOverflows(rcv, m)
                  THEN [r |-> [rcv EXCEPT !.pc = "panic"], out |-> <<>>]
                  ELSE RHandle(rcv, m, conf)
       IN  /\ rcv' = Settle(res.r)
           /\ \E kept \in Kept(res.out) : toS' = toS \cup kept
           /\ ev' = Event("rcv", "inject", m, res.out)
  /\ UNCHANGED <<snd, toR, conf, faults, part0>>
  /\ UNCHANGED rest_vars

InitInject == Init /\ faults = "part_loss"
NextInject == Next \/ RInject
SpecInject == InitInject /\ [][NextInject]_vars

Spec == Init /\ [][Next]_vars

\* The sessions of files of at most one block, with no .part or a .part of
\* the file's size, in which both processes run: a process that waits takes
\* a datagram that is in its socket, a timer that may expire does expire, and
\* the sender starts.
InitShort ==
  /\ Init
  /\ snd.file_size <= conf.BLOCK_SIZE
  /\ part0.exists => Len(part0.data) = snd.file_size
SpecFair ==
  /\ InitShort
  /\ [][Next]_vars
  /\ WF_vars(SStart)
  /\ WF_vars(RRecv)
  /\ WF_vars(RTimeout)
  /\ WF_vars(SRecv)
  /\ WF_vars(STimeout)

\* A session whose blocks have more than 2 * MISSING_PER_MESSAGE chunks, so
\* that a block's missing list takes up to three BlockMissingChunk datagrams:
\* one block of FragBlockSize one-byte chunks, or that block and a short one.
InitFrag ==
  /\ \E size \in {FragBlockSize, FragBlockSize + 1} : snd = NewSender(size)
  /\ rcv = NewReceiver(NoFile)
  /\ part0 = NoFile
  /\ toR = {}
  /\ toS = {}
  /\ conf = [BLOCK_SIZE |-> FragBlockSize, CHUNK_SIZE |-> 1]
  /\ faults = "burst"
  /\ ev = NoEvent
  /\ RestIdle

SpecFrag == InitFrag /\ [][Next]_vars

\* ------------------------------------------------------------------ claims
\* The bytes of the source file that make up block b.
BlockOffsets(b) ==
  {k \in 1..snd.file_size :
     k > b * conf.BLOCK_SIZE /\ k <= (b + 1) * conf.BLOCK_SIZE}
\* The blocks this session has committed: from the announced start block up
\* to, not including, the block in progress.
CommittedInSession == {b \in 0..MaxFileSize : rcv.block <= b /\ b < rcv.next_block}
\* The file the writer writes to: the .part, or the final path once promoted.
Written == IF rcv.final.exists THEN rcv.final.data ELSE rcv.part.data

\* C1: under every loss, duplication and reordering of datagrams, every block
\* committed in the session holds exactly the sender's bytes of that block,
\* and once the transfer is promoted to the final path the file has the
\* sender's size, every block from the start block on was committed in the
\* session (unless the .part found already had the full size), and a transfer
\* that found no .part is the sender's file.
C1_ByteIdentical ==
  /\ \A b \in CommittedInSession : \A k \in BlockOffsets(b) :
       k <= Len(Written) /\ Written[k] = FileByte(k - 1)
  /\ rcv.final.exists =>
       /\ Len(rcv.final.data) = snd.file_size
       /\ ~(part0.exists /\ Len(part0.data) = snd.file_size) =>
            \A k \in 1..snd.file_size :
              k > rcv.block * conf.BLOCK_SIZE =>
                \E b \in CommittedInSession : k \in BlockOffsets(b)
       /\ ~part0.exists => rcv.final.data = SourceFile(snd.file_size)

C1_Witness ==
  /\ faults = "any"
  /\ rcv.final.exists
  /\ Len(rcv.writes) >= 2
  /\ rcv.final.data = SourceFile(snd.file_size)

\* C2: in a run whose only fault is the loss of FilePart datagrams, neither
\* side ends in an error, and the receiver, once done with a transfer that
\* found no .part, holds the sender's file.
C2_PartLossCompletes ==
  faults = "part_loss" =>
    /\ snd.pc \notin {"error", "panic"}
    /\ rcv.pc \notin {"error", "panic"}
    /\ (rcv.pc = "done" /\ ~part0.exists) =>
         rcv.final = File(SourceFile(snd.file_size))

\* The chunk indices of the receiver's block in progress.
ChunkIndices(r) ==
  {c \in 0..r.cur_block_size : c * r.chunk_size < r.cur_block_size}
AllPresent(r) ==
  /\ r.pc = "MainLoop"
  /\ \A c \in ChunkIndices(r) : c < r.write_flag.len /\ is_set(r.write_flag, c)
\* The step is a commit: a block is written to the .part file.
Commits == rcv'.writes # rcv.writes

\* C3: a step of the receiver that commits a block, or that sends
\* BlockCompleteAck for the block in progress, starts in a state in which
\* every chunk index of that block is marked present in the bit array.
C3_CommitOnlyWhenFull ==
  [][(\/ Commits
      \/ rcv'.next_block # rcv.next_block /\ rcv.pc # "ReadRequest"
      \/ /\ ev'.actor = "rcv"
         /\ rcv.pc \in {"SendResponse", "MainLoop"}
         /\ BlockCompleteAck(index(rcv)) \in Range(ev'.sent))
     => AllPresent(rcv)]_vars

\* A two-chunk block has just been committed after a retransmission round.
C3_Witness ==
  /\ faults = "any"
  /\ ev.actor = "rcv" /\ ev.msg.type = "BlockComplete"
  /\ BlockCompleteAck(ev.msg.block) \in Range(ev.sent)
  /\ rcv.writes # <<>>
  /\ rcv.block_size > rcv.chunk_size
  /\ \E m \in toS : m.type = "BlockMissingChunk" /\ m.block = ev.msg.block

\* The block index a commit wrote, from the file offset of its write_all.
WrittenBlock(offset) == offset \div conf.BLOCK_SIZE

\* C4: in every step the receiver's next_block does not decrease; it changes
\* after the Request only in a commit, and a commit raises it by exactly one
\* and writes exactly one block; no two commits of a session write the same
\* block index.
C4_MonotoneNoRewrite ==
  [][/\ rcv'.next_block >= rcv.next_block
     /\ Commits => /\ rcv'.next_block = rcv.next_block + 1
                   /\ rcv'.writes = Append(rcv.writes, rcv.pos)
                   /\ WrittenBlock(rcv.pos) = rcv.next_block
     /\ (rcv'.next_block # rcv.next_block /\ rcv.pc # "ReadRequest") => Commits
     /\ \A i, j \in 1..Len(rcv'.writes) :
          i # j => WrittenBlock(rcv'.writes[i]) # WrittenBlock(rcv'.writes[j])
    ]_vars

\* Three blocks were committed although BlockComplete was delivered again
\* after a commit.
C4_Witness ==
  /\ faults = "any"
  /\ Len(rcv.writes) = 3
  /\ rcv.next_block = 3
  /\ ev.actor = "rcv" /\ ev.msg.type = "BlockComplete" /\ ev.msg.block < 2

\* The last step was the receiver receiving BlockComplete(b).
GotBlockComplete(e) ==
  e.actor = "rcv" /\ e.kind = "recv" /\ e.msg.type = "BlockComplete"
RECURSIVE TotalListed(_)
TotalListed(msgs) ==
  IF msgs = <<>> THEN 0 ELSE Len(Head(msgs).chunk) + TotalListed(Tail(msgs))
\* The datagrams sent are BlockCompleteAck(b), possibly followed by
\* FileComplete, or BlockMissingChunk{b,..} datagrams in whose lists there are
\* exactly count entries.
Answers(sent, b) ==
  \/ sent # <<>> /\ sent[1] = BlockCompleteAck(b)
  \/ /\ sent # <<>>
     /\ \A i \in 1..Len(sent) :
          /\ sent[i].type = "BlockMissingChunk"
          /\ sent[i].block = b
          /\ sent[i].count = TotalListed(sent)

\* C5: whenever the receiver receives BlockComplete(b), in whatever stage, it
\* answers with BlockCompleteAck(b) or with BlockMissingChunk{b,..} datagrams
\* whose lists hold count entries in total.
C5_BlockCompleteAnswered ==
  GotBlockComplete(ev) => Answers(ev.sent, ev.msg.block)

\* The chunk lists of the datagrams msgs, concatenated in send order.
RECURSIVE Concat(_)
Concat(msgs) ==
  IF msgs = <<>> THEN <<>> ELSE Head(msgs).chunk \o Concat(Tail(msgs))
\* The chunks of the receiver's block in progress that were not written.
MissingSet(r) == {c \in ChunkIndices(r) : ~is_set(r.write_flag, c)}
\* The receiver, in the main loop, receives BlockComplete for its block in
\* progress while chunks are missing.
GetsIncomplete ==
  /\ GotBlockComplete(ev')
  /\ rcv.pc = "MainLoop"
  /\ ev'.msg.block = index(rcv)
  /\ MissingSet(rcv) # {}

\* C6: on BlockComplete(b) for the block in progress with missing set M, not
\* empty, the receiver sends ceil(|M| / 100) BlockMissingChunk{b,..} datagrams,
\* each with at most 100 entries and with count = |M|; their lists, in send
\* order, are M in ascending order without repetition; the receiver's state
\* does not change.
C6_Fragmentation ==
  [][GetsIncomplete =>
       LET M == MissingSet(rcv)
           sent == ev'.sent
           all == Concat(sent)
       IN  /\ Len(sent) = (Cardinality(M) + 99) \div 100
           /\ \A i \in 1..Len(sent) :
                /\ sent[i].type = "BlockMissingChunk"
                /\ sent[i].block = ev'.msg.block
                /\ Len(sent[i].chunk) <= 100
                /\ sent[i].count = Cardinality(M)
           /\ Range(all) = M
           /\ \A i \in 1..(Len(all) - 1) : all[i] < all[i + 1]
           /\ rcv' = rcv
    ]_vars

\* The receiver has answered a BlockComplete with three BlockMissingChunk
\* datagrams, the last one shorter than the others.
C6_Witness ==
  /\ GotBlockComplete(ev)
  /\ Len(ev.sent) = 3
  /\ Len(ev.sent[1].chunk) = 100
  /\ Len(ev.sent[3].chunk) >= 1
  /\ ev.sent[3].count = 200 + Len(ev.sent[3].chunk)
  /\ rcv.pc = "MainLoop"

\* C7: a BlockComplete(b) received for a block b the session has already
\* committed, the last block included, is answered with BlockCompleteAck(b)
\* alone and leaves the receiver's state unchanged.
C7_DuplicateAcked ==
  [][(GotBlockComplete(ev') /\ ev'.msg.block \in CommittedInSession)
       => (ev'.sent = <<BlockCompleteAck(ev'.msg.block)>> /\ rcv' = rcv)]_vars

\* The chunk indices of the FilePart datagrams of block b among sent, in
\* send order.
ResentChunks(sent, b) ==
  LET IsPart(m) == m.type = "FilePart" /\ m.block = b
      parts == SelectSeq(sent, IsPart)
  IN  [k \in 1..Len(parts) |-> parts[k].chunk]
\* The sender, waiting for the answer to BlockComplete(b), sends chunks of
\* block b again.
Retransmits ==
  /\ snd.pc = "SendBlockComplete"
  /\ ev'.actor = "snd"
  /\ ResentChunks(ev'.sent, snd.block) # <<>>
\* The step receives a BlockMissingChunk{b,..} that brings the accumulated
\* list to exactly count entries, and sends again exactly the chunks listed.
ResendsCompleteList ==
  /\ ev'.kind = "recv"
  /\ ev'.msg.type = "BlockMissingChunk"
  /\ ev'.msg.block = snd.block
  /\ Len(snd.missing_chunk.v) + Len(ev'.msg.chunk) = ev'.msg.count
  /\ ResentChunks(ev'.sent, snd.block) = snd.missing_chunk.v \o ev'.msg.chunk
\* The retry budget of BlockComplete expires and the sender sends again the
\* chunks of the list accumulated so far.
ResendsOnExpiry ==
  /\ ev'.kind = "timer"
  /\ snd.attempt = RETRY_COUNT
  /\ snd.missing_chunk.some
  /\ ResentChunks(ev'.sent, snd.block) = snd.missing_chunk.v

\* C8 as stated: the sender sends chunks of block b again only in a step in
\* which the accumulated lists reach exactly count entries.
C8_OnlyCompleteList == [][Retransmits => ResendsCompleteList]_vars

\* C8, amended: the sender sends chunks of block b again only when the
\* accumulated lists reach exactly count entries, or when the retry budget of
\* BlockComplete expires with a list accumulated, and then it sends the
\* chunks accumulated so far.
C8_CompleteOrExpired ==
  [][Retransmits => (ResendsCompleteList \/ ResendsOnExpiry)]_vars

\* The retry budget expired and the sender sent again the chunks accumulated,
\* which are only some of the chunks the receiver is missing.
C8_Witness ==
  /\ ev.actor = "snd" /\ ev.kind = "timer"
  /\ ResentChunks(ev.sent, snd.block) # <<>>
  /\ rcv.pc = "MainLoop"
  /\ Range(ResentChunks(ev.sent, snd.block)) \subseteq MissingSet(rcv)
  /\ Range(ResentChunks(ev.sent, snd.block)) # MissingSet(rcv)

\* The session transfers a zero-byte file.
ZeroByte == snd.file_size = 0

\* C9: in a session for a zero-byte file no Response, FilePart, BlockComplete
\* or BlockCompleteAck is sent; the receiver handles the Request by creating
\* the destination and sending FileComplete; the sender answers FileComplete
\* with FileCompleteAck and is done; and when the receiver is done the
\* destination exists with size 0 and no .part file exists.
C9_ZeroByte ==
  [][ZeroByte =>
       /\ \A i \in 1..Len(ev'.sent) :
            ev'.sent[i].type \notin
              {"Response", "FilePart", "BlockComplete", "BlockCompleteAck"}
       /\ (rcv.pc = "ReadRequest" /\ ev'.actor = "rcv"
             /\ ev'.msg.type = "Request") =>
            (ev'.sent = <<FileComplete>> /\ rcv'.final = File(<<>>))
       /\ (snd.pc = "SendRequest" /\ ev'.actor = "snd"
             /\ ev'.msg.type = "FileComplete") =>
            (ev'.sent = <<FileCompleteAck>> /\ snd'.pc = "done")
       /\ rcv'.pc = "done" => (rcv'.final = File(<<>>) /\ ~rcv'.part.exists)
    ]_vars

C11_RenameAtomic ==
  /\ rcv.pc = "done" =>
       /\ ~rcv.part.exists
       /\ rcv.final.exists
       /\ Len(rcv.final.data) = rcv.size
  /\ (rcv.final.exists /\ rcv.size > 0
        /\ ~(part0.exists /\ Len(part0.data) = rcv.size)) =>
       /\ rcv.next_block = rcv.last_block + 1
       /\ rcv.writes # <<>>
       /\ WrittenBlock(rcv.writes[Len(rcv.writes)]) = rcv.last_block

\* ----------------------------------------------------------------- perform
\* One call of perform (operation.rs) on any of the operations of the
\* repository.  polls and expiries count the calls of poll and the expiries
\* of the retry timer; ret is what perform returned.
Operations ==
  {"DetectSymmetricNat", "Register", "Lookup", "SendRequest", "SendResponse",
   "SendBlockComplete", "SendComplete"}

NewPerform(op) ==
  [pc |-> "start", op |-> op, attempt |-> 0, partial |-> FALSE,
   polls |-> 0, expiries |-> 0, ret |-> "none"]

\* Mutant: every operation has a result when the budget is exhausted.
OpResult_AlwaysSome(p) == Some(<<>>)
\* Operation::result: None by default; SendComplete returns Some(()),
\* SendBlockComplete the list accumulated so far, if any.
OpResult(p) ==
  IF p.op = "SendComplete" THEN Some(<<>>)
  ELSE IF p.op = "SendBlockComplete" /\ p.partial THEN Some(<<>>)
  ELSE None

\* operation.poll().await?: an error of poll is returned at once.
Poll(p, ok) ==
  IF ok THEN [p EXCEPT !.pc = "waiting", !.polls = @ + 1]
  ELSE [p EXCEPT !.pc = "returned", !.polls = @ + 1, !.ret = "poll_error"]

\* The retry timer expires: while attempt < RETRY_COUNT the attempt is counted
\* and poll is called again, otherwise perform returns result() or a timeout.
Expire(p, ok) ==
  IF MayRetry(p.attempt)
  THEN Poll([p EXCEPT !.attempt = @ + 1, !.expiries = @ + 1], ok)
  ELSE [p EXCEPT !.pc = "returned",
                 !.expiries = @ + 1,
                 !.ret = IF OpResult(p).some THEN "result" ELSE "timeout"]

\* resolve completes: perform returns its value or its error.
Resolve(p, v) == [p EXCEPT !.pc = "returned", !.ret = v]

InitPerform ==
  /\ \E op \in Operations : perf = NewPerform(op)
  /\ snd = NewSender(0)
  /\ rcv = NewReceiver(NoFile)
  /\ part0 = NoFile
  /\ toR = {}
  /\ toS = {}
  /\ conf = [BLOCK_SIZE |-> BLOCK_SIZE, CHUNK_SIZE |-> CHUNK_SIZE]
  /\ faults = "any"
  /\ ev = NoEvent
  /\ srv = NoServer
  /\ wire = {}
  /\ peer = NoPeers
  /\ calc = NoCalc

\* perform's first poll.
PerformStart ==
  /\ perf.pc = "start"
  /\ \E ok \in BOOLEAN : perf' = Poll(perf, ok)
  /\ UNCHANGED <<file_vars, srv, wire, peer>>

\* resolve completes, with a value or with an error.
PerformResolve ==
  /\ perf.pc = "waiting"
  /\ \E v \in {"resolve_ok", "resolve_error"} : perf' = Resolve(perf, v)
  /\ UNCHANGED <<file_vars, srv, wire, peer>>

\* resolve of SendBlockComplete accumulates a fragment and keeps waiting.
PerformPartial ==
  /\ perf.pc = "waiting"
  /\ perf.op = "SendBlockComplete"
  /\ ~perf.partial
  /\ perf' = [perf EXCEPT !.partial = TRUE]
  /\ UNCHANGED <<file_vars, srv, wire, peer>>

\* sleep(RETRY_DURATION) completes before resolve does.
PerformExpire ==
  /\ perf.pc = "waiting"
  /\ \E ok \in BOOLEAN : perf' = Expire(perf, ok)
  /\ UNCHANGED <<file_vars, srv, wire, peer>>

NextPerform ==
  PerformStart \/ PerformResolve \/ PerformPartial \/ PerformExpire

SpecPerform == InitPerform /\ [][NextPerform]_vars

\* perform runs on, and its timer expires, whether or not resolve completes.
SpecPerformFair ==
  /\ InitPerform
  /\ [][NextPerform]_vars
  /\ WF_vars(PerformStart)
  /\ WF_vars(PerformExpire)

\* C12: perform returns, also when resolve never completes; while it waits it
\* has polled once and once more per timer expiry, at most 1 + RETRY_COUNT
\* times in all, and the timer expiry after the last retry returns without
\* another poll.
C12_PerformTerminates ==
  /\ [](/\ perf.polls <= 1 + RETRY_COUNT
        /\ perf.expiries <= 1 + RETRY_COUNT
        /\ perf.pc = "waiting" =>
             (perf.polls = 1 + perf.expiries /\ perf.expiries <= RETRY_COUNT)
        /\ perf.expiries = 1 + RETRY_COUNT =>
             (perf.pc = "returned" /\ perf.polls = 1 + RETRY_COUNT))
  /\ <>(perf.pc = "returned")

\* perform returned at the fourth timer expiry, after four polls.
C12_Witness ==
  /\ perf.pc = "returned"
  /\ perf.expiries = 4
  /\ perf.polls = 4
  /\ perf.ret = "timeout"

\* The operations that do not override result().
NoResultOverride ==
  {"DetectSymmetricNat", "Register", "Lookup", "SendRequest", "SendResponse"}

\* C13: when resolve completes perform returns its value or error and polls
\* no further; an error of poll is returned at once; a timer expiry with the
\* retry budget exhausted returns result() if there is one and a timeout error
\* otherwise, without polling, and for an operation that does not override
\* result() it returns the timeout error.
C13_PerformReturns ==
  [][/\ perf'.ret \in {"resolve_ok", "resolve_error"} =>
          (perf.pc = "waiting" /\ perf'.pc = "returned"
             /\ perf'.polls = perf.polls /\ perf'.expiries = perf.expiries)
     /\ perf'.ret = "poll_error" =>
          (perf'.pc = "returned" /\ perf'.polls = perf.polls + 1)
     /\ (perf.attempt = RETRY_COUNT /\ perf'.expiries = perf.expiries + 1) =>
          /\ perf'.pc = "returned"
          /\ perf'.polls = perf.polls
          /\ perf'.ret = IF OpResult(perf).some THEN "result" ELSE "timeout"
          /\ perf.op \in NoResultOverride => perf'.ret = "timeout"
     /\ perf'.ret \in {"result", "timeout"} =>
          (perf.attempt = RETRY_COUNT /\ perf'.expiries = 1 + RETRY_COUNT)
    ]_vars

\* The budget of SendBlockComplete ran out with a list accumulated and
\* perform returned it.
C13_Witness ==
  /\ perf.pc = "returned"
  /\ perf.op = "SendBlockComplete"
  /\ perf.partial
  /\ perf.ret = "result"
  /\ perf.expiries = 1 + RETRY_COUNT

\* ------------------------------------------------------- rendezvous server
\* A socket address.
Addr(ip, port) == [ip |-> ip, port |-> port]
NoAddr == Addr("none", 0)
\* Option<SocketAddr>
NoneAddr == [some |-> FALSE, v |-> NoAddr]
SomeAddr(a) == [some |-> TRUE, v |-> a]

\* message.rs: the rendezvous messages (Request and Response of the
\* rendezvous are RdvRequest and RdvResponse here).
Query == [type |-> "Query"]
Address(addr) == [type |-> "Address", addr |-> addr]
Register(id) == [type |-> "Register", id |-> id]
RegisterAck == [type |-> "RegisterAck"]
Lookup(peer_id) == [type |-> "Lookup", peer_id |-> peer_id]
Peer(addr) == [type |-> "Peer", addr |-> addr]
RdvRequest(peer_addr) == [type |-> "Request", peer_addr |-> peer_addr]
RdvResponse(peer_addr) == [type |-> "Response", peer_addr |-> peer_addr]
ResponseAck == [type |-> "ResponseAck"]
Hello == [type |-> "Hello"]
HelloAck == [type |-> "HelloAck"]

\* The addresses the server's two sockets are bound to.
ServerAddr == Addr("server", 1)
ServerAddr2 == Addr("server", 2)

\* peers.len() > 256 and Duration::from_secs(600) in run and peer_gc.
GC_THRESHOLD == 256
GC_SECS == 600

\* A datagram sent: the message, its destination and the sending address.
Sent(msg, dst, from) == [msg |-> msg, dst |-> dst, from |-> from]

\* run() after both sockets are bound; last is the history of the last pass
\* through the loop: the socket, what was received (or that recv_from
\* failed), whether a send failed, what was sent and whether peer_gc ran.
NoPass ==
  [sock |-> 0, msg |-> NoMsg, src |-> NoAddr, recv_error |-> FALSE,
   send_error |-> FALSE, sent |-> <<>>, gc |-> FALSE]
NewServer ==
  [pc |-> "loop", peers |-> <<>>, peer_gc_at |-> 0, now |-> 0,
   last |-> NoPass]

\* Mutant: an id that is registered keeps its entry.
Insert_KeepFirst(peers, id, src, now) ==
  [i \in DOMAIN peers \cup {id} |->
     IF i \in DOMAIN peers THEN peers[i] ELSE [addr |-> src, seen |-> now]]
\* peers.insert(id, (src, Instant::now()))
Insert(peers, id, src, now) ==
  [i \in DOMAIN peers \cup {id} |->
     IF i = id THEN [addr |-> src, seen |-> now] ELSE peers[i]]

\* Mutant: the sweep also removes the entries that are exactly GC_SECS old.
Expired_Inclusive(seen, now) == now - seen >= GC_SECS
\* peer_gc: now.duration_since(v.1) > Duration::from_secs(600)
Expired(seen, now) == now - seen > GC_SECS

\* peer_gc: the entries kept.
peer_gc(peers, now) ==
  [i \in {k \in DOMAIN peers : ~Expired(peers[k].seen, now)} |-> peers[i]]

\* The datagrams of plan sent before the send numbered fail fails (0: no
\* send fails); cont! skips what follows a failed send.
SentBefore(plan, fail) ==
  IF fail = 0 THEN plan ELSE SubSeq(plan, 1, fail - 1)

\* Mutant: a Lookup of a registered peer is also answered to its source.
LookupPlan_AlsoReply(s, peer_id, src) ==
  IF peer_id \in DOMAIN s.peers
  THEN <<Sent(RdvRequest(src), s.peers[peer_id].addr, ServerAddr),
         Sent(Peer(NoneAddr), src, ServerAddr)>>
  ELSE <<Sent(Peer(NoneAddr), src, ServerAddr)>>
\* Mutant: Lookup is answered with the registered address.
LookupPlan_Direct(s, peer_id, src) ==
  IF peer_id \in DOMAIN s.peers
  THEN <<Sent(Peer(SomeAddr(s.peers[peer_id].addr)), src, ServerAddr)>>
  ELSE <<Sent(Peer(NoneAddr), src, ServerAddr)>>
\* The Lookup arm.
LookupPlan(s, peer_id, src) ==
  IF peer_id \in DOMAIN s.peers
  THEN <<Sent(RdvRequest(src), s.peers[peer_id].addr, ServerAddr)>>
  ELSE <<Sent(Peer(NoneAddr), src, ServerAddr)>>

\* The sends of the arm of socket 1 that matches msg.
Plan1(s, msg, src) ==
  CASE msg.type = "Query" -> <<Sent(Address(src), src, ServerAddr)>>
    [] msg.type = "Register" -> <<Sent(RegisterAck, src, ServerAddr)>>
    [] msg.type = "Lookup" -> LookupPlan(s, msg.peer_id, src)
    [] msg.type = "Response" ->
         <<Sent(ResponseAck, src, ServerAddr),
           Sent(Peer(SomeAddr(src)), msg.peer_addr, ServerAddr)>>
    [] OTHER -> <<>>

\* Mutant: a failed recv_from or send_to ends run.
cont_Return(s, failed) == IF failed THEN [s EXCEPT !.pc = "returned"] ELSE s
\* cont!: a failed recv_from or send_to is logged and the loop continues.
cont(s, failed) == s

\* One pass through the loop for a datagram msg from src on socket 1; the
\* send numbered fail fails.
OnSocket1(s, msg, src, fail) ==
  LET plan == Plan1(s, msg, src)
  IN  [cont(s, fail # 0) EXCEPT
         !.peers = IF msg.type = "Register"
                   THEN Insert(@, msg.id, src, s.now) ELSE @,
         !.last = [sock |-> 1, msg |-> msg, src |-> src,
                   recv_error |-> FALSE, send_error |-> fail # 0,
                   sent |-> SentBefore(plan, fail), gc |-> FALSE]]

\* peers.len() > 256 && peer_gc_at.elapsed() > Duration::from_secs(600)
SweepDue(s) ==
  /\ Cardinality(DOMAIN s.peers) > GC_THRESHOLD
  /\ s.now - s.peer_gc_at > GC_SECS

\* One pass through the loop for a datagram msg from src on socket 2.
OnSocket2(s, msg, src, fail) ==
  LET plan == IF msg.type = "Query"
              THEN <<Sent(Address(src), src, ServerAddr2)>> ELSE <<>>
      gc == msg.type = "Query" /\ fail = 0 /\ SweepDue(s)
  IN  [cont(s, fail # 0) EXCEPT
         !.peers = IF gc THEN peer_gc(@, s.now) ELSE @,
         !.peer_gc_at = IF gc THEN s.now ELSE @,
         !.last = [sock |-> 2, msg |-> msg, src |-> src,
                   recv_error |-> FALSE, send_error |-> fail # 0,
                   sent |-> SentBefore(plan, fail), gc |-> gc]]

\* cont!(recv): recv_from failed, the loop goes on.
OnRecvError(s, sock) ==
  [cont(s, TRUE) EXCEPT
     !.last = [NoPass EXCEPT !.sock = sock, !.recv_error = TRUE]]

\* The server on its own, with the datagrams that arrive chosen freely.
\* Peer ids are numbers; ids register in ascending order, each from its own
\* address, and peer 1, while few peers are registered, also from a second
\* address.
MaxPeerId == GC_THRESHOLD + 1
ClientAddrs == {Addr("c", 1), Addr("p", 1)}
\* Few peers are registered: datagrams of every kind arrive.
Small(s) == Cardinality(DOMAIN s.peers) <= 2
\* The registry is about full: registrations and the Query that may start a
\* sweep arrive, and time is seen to pass.
Large(s) == Cardinality(DOMAIN s.peers) >= GC_THRESHOLD - 1
RegisterIds(s) ==
  LET free == (1..MaxPeerId) \ DOMAIN s.peers
  IN  {1} \cup (IF free = {} THEN {}
                ELSE {CHOOSE i \in free : \A j \in free : i <= j})
RegisterSrc(s, id) ==
  {Addr("p", id)} \cup (IF id = 1 /\ Small(s) THEN {Addr("q", 1)} ELSE {})
Inputs1(s) ==
  UNION {{<<Register(id), a>> : a \in RegisterSrc(s, id)} :
           id \in RegisterIds(s)}
    \cup (IF ~Small(s) THEN {}
          ELSE {<<m, c>> :
                  m \in {Query, Hello, Lookup(1), Lookup(MaxPeerId)}
                          \cup {RdvResponse(a) : a \in ClientAddrs},
                  c \in ClientAddrs})
Inputs2(s) ==
  IF Small(s) THEN {Query, Hello, Register(1)} \X ClientAddrs
  ELSE IF Large(s) THEN {<<Query, Addr("c", 1)>>}
  ELSE {}

InitServer ==
  /\ srv = NewServer
  /\ perf = NoPerform
  /\ wire = {}
  /\ peer = NoPeers
  /\ snd = NewSender(0)
  /\ rcv = NewReceiver(NoFile)
  /\ part0 = NoFile
  /\ toR = {}
  /\ toS = {}
  /\ conf = [BLOCK_SIZE |-> BLOCK_SIZE, CHUNK_SIZE |-> CHUNK_SIZE]
  /\ faults = "any"
  /\ ev = NoEvent
  /\ calc = NoCalc

\* A datagram arrives on socket 1.
ServerRecv1 ==
  /\ srv.pc = "loop"
  /\ \E in \in Inputs1(srv) :
       \E fail \in 0..Len(Plan1(srv, in[1], in[2])) :
         srv' = OnSocket1(srv, in[1], in[2], fail)
  /\ UNCHANGED <<file_vars, perf, wire, peer>>

\* A datagram arrives on socket 2.
ServerRecv2 ==
  /\ srv.pc = "loop"
  /\ \E in \in Inputs2(srv) :
       \E fail \in 0..(IF in[1].type = "Query" THEN 1 ELSE 0) :
         srv' = OnSocket2(srv, in[1], in[2], fail)
  /\ UNCHANGED <<file_vars, perf, wire, peer>>

\* recv_from fails on one of the sockets.
ServerRecvError ==
  /\ srv.pc = "loop"
  /\ Small(srv)
  /\ \E sock \in {1, 2} : srv' = OnRecvError(srv, sock)
  /\ UNCHANGED <<file_vars, perf, wire, peer>>

\* Time passes; it is seen to pass while the registry is empty or about
\* full.
ServerTick ==
  /\ srv.pc = "loop"
  /\ srv.now < MaxTicks * TickSecs
  /\ srv.peers = <<>> \/ Large(srv)
  /\ srv' = [srv EXCEPT !.now = @ + TickSecs]
  /\ UNCHANGED <<file_vars, perf, wire, peer>>

NextServer == ServerRecv1 \/ ServerRecv2 \/ ServerRecvError \/ ServerTick

SpecServer == InitServer /\ [][NextServer]_vars

\* C16: every Peer{addr: Some(a)} the server sends is sent in the pass that
\* handles a Response{peer_addr} received on socket 1, with a the source of
\* the Response and peer_addr its destination, after a ResponseAck to the
\* source; a Lookup is never answered with Peer{addr: Some(..)}.
C16_PeerOnlyFromResponse ==
  \A i \in 1..Len(srv.last.sent) :
    LET d == srv.last.sent[i]
    IN  (d.msg.type = "Peer" /\ d.msg.addr.some) =>
          /\ srv.last.sock = 1
          /\ srv.last.msg.type = "Response"
          /\ d.msg.addr.v = srv.last.src
          /\ d.dst = srv.last.msg.peer_addr
          /\ i = 2
          /\ srv.last.sent[1] = Sent(ResponseAck, srv.last.src, ServerAddr)

\* The server has handled a Response while the peer looked up is registered.
C16_Witness ==
  /\ srv.last.msg.type = "Response"
  /\ Len(srv.last.sent) = 2
  /\ srv.last.sent[2].msg = Peer(SomeAddr(srv.last.src))
  /\ 1 \in DOMAIN srv.peers

\* The step is one pass through the server's loop.
IsPass == srv'.now = srv.now /\ srv' # srv

\* C17: entries leave the registry, and the GC timestamp changes, only in a
\* pass that handles a Query on socket 2 while more than 256 peers are
\* registered and the last sweep (or the start) is more than 600 s ago; a
\* sweep removes exactly the entries last seen more than 600 s ago, leaves
\* the others as they are and sets the GC timestamp to the time of the sweep.
C17_SweepOnly ==
  [][LET removed == DOMAIN srv.peers \ DOMAIN srv'.peers
     IN  /\ (removed # {} \/ srv'.peer_gc_at # srv.peer_gc_at) =>
              /\ srv'.last.sock = 2
              /\ srv'.last.msg = Query
              /\ srv'.last.gc
              /\ Cardinality(DOMAIN srv.peers) > 256
              /\ srv.now - srv.peer_gc_at > 600
         /\ (IsPass /\ srv'.last.gc) =>
              /\ removed = {k \in DOMAIN srv.peers :
                              srv.now - srv.peers[k].seen > 600}
              /\ \A k \in DOMAIN srv'.peers : srv'.peers[k] = srv.peers[k]
              /\ srv'.peer_gc_at = srv.now
    ]_vars

\* A sweep has removed entries and kept others, one of them seen before the
\* time of the sweep.
C17_Witness ==
  /\ srv.last.gc
  /\ srv.peers # <<>>
  /\ Cardinality(DOMAIN srv.peers) <= GC_THRESHOLD
  /\ srv.peer_gc_at = srv.now
  /\ \E k \in DOMAIN srv.peers : srv.peers[k].seen < srv.now

\* C18: the server's loop never returns; a pass in which recv_from fails
\* sends nothing and changes nothing, a pass in which a send fails sends
\* nothing after the failed send, runs no sweep and keeps every entry of the
\* registry; and after a failed pass a Query on either socket is answered.
C18_NeverReturns ==
  [][/\ srv'.pc = "loop"
     /\ (IsPass /\ srv'.last.recv_error) =>
          /\ srv'.last.sent = <<>>
          /\ srv'.peers = srv.peers
          /\ srv'.peer_gc_at = srv.peer_gc_at
     /\ (IsPass /\ srv'.last.send_error) =>
          /\ \A i \in 1..Len(srv'.last.sent) :
               srv'.last.sent[i].msg.type # "Peer"
          /\ ~srv'.last.gc
          /\ srv'.peer_gc_at = srv.peer_gc_at
          /\ \A k \in DOMAIN srv.peers :
               /\ k \in DOMAIN srv'.peers
               /\ srv'.last.msg # Register(k) => srv'.peers[k] = srv.peers[k]
     /\ (IsPass /\ (srv.last.recv_error \/ srv.last.send_error)
           /\ srv'.last.msg = Query /\ ~srv'.last.send_error) =>
          srv'.last.sent =
            <<Sent(Address(srv'.last.src), srv'.last.src,
                   IF srv'.last.sock = 1 THEN ServerAddr ELSE ServerAddr2)>>
    ]_vars

\* After a failed send of ResponseAck the server serves a registered peer's
\* registry entry still in place.
C18_Witness ==
  /\ srv.last.send_error
  /\ srv.last.msg.type = "Response"
  /\ srv.last.sent = <<>>
  /\ srv.peers # <<>>
  /\ srv.pc = "loop"

\* -------------------------------------------------------------------- peer
\* One peer (peer.rs) behind a NAT, the server, and the other peers of the
\* rendezvous as the environment.  The peer's main socket is bound to
\* PeerLocal; the socket of the punch task for peer_addr to TaskLocal.
PeerLocal == Addr("p", 1)
\* The other peers: a responder registered from OtherAddr (its punch task
\* sends from OtherTask), and initiators at the addresses of Initiators.
OtherAddr == Addr("e", 1)
OtherTask == Addr("e", 2)
Initiators == {Addr("q", 1), Addr("r", 1)}

\* The source address the NAT gives a datagram from local to dst: a symmetric
\* NAT maps every destination to a port of its own, any other NAT (or none)
\* maps the socket to one address.
NatMap(nat, local, dst) ==
  IF nat = "symmetric"
  THEN Addr(local.ip, 10 * local.port + dst.port)
  ELSE local

\* The datagram d in flight reaches the socket bound to local: it is addressed
\* to the mapping the NAT made towards its sender and, on a connected socket,
\* it comes from the connected address.
Reaches(p, local, connect, d) ==
  /\ d.dst = NatMap(p.nat, local, d.from)
  /\ connect = NoAddr \/ d.from = connect

\* The datagrams of plan as they leave the NAT.
Leave(p, plan) ==
  {Sent(plan[i].msg, plan[i].dst, NatMap(p.nat, plan[i].from, plan[i].dst)) :
     i \in 1..Len(plan)}

\* set_ttl(6) in run and in handle_punch, and the TTL sockets are created
\* with.
PunchTtl == 6
DefaultTtl == 64

\* A datagram sent with the TTL it leaves with.
Dgram(msg, dst, from, ttl) ==
  [msg |-> msg, dst |-> dst, from |-> from, ttl |-> ttl]

\* History of the responder's last step: the arm taken ("main" for the loop
\* of run, else the arm of handle_punch), the peer_addr of the task and the
\* source of the datagram the task received.
Step(arm, task, src) == [arm |-> arm, task |-> task, src |-> src]
NoStep == Step("none", NoAddr, NoAddr)

\* run() after Socket::new_unspecified: DetectSymmetricNat is about to be
\* performed.  log is the history of the kinds of message sent from the main
\* socket, err the error run returned with, map the responder's HashMap from
\* peer_addr to the sending half of a punch task's inbox, tasks the spawned
\* tasks that have not finished, recv what the responder's loop received in
\* the last step (NoMsg when the step was not a receive of the loop) and out
\* what the loop, a task or the initiator (from its first Hello on) sent in
\* its last step; sock_ttl is the TTL of the main socket, ttl the TTL the
\* initiator saved, past whether the initiator has seen its deadline pass,
\* step the arm the responder's last step took.
NewPeer(role, nat, id) ==
  [pc |-> "detect", role |-> role, nat |-> nat, id |-> id,
   op |-> NewPerform("DetectSymmetricNat"),
   addr1 |-> NoneAddr, addr2 |-> NoneAddr, found |-> NoneAddr,
   connect |-> NoAddr, err |-> "none", log |-> {},
   map |-> <<>>, tasks |-> <<>>, recv |-> NoMsg, out |-> <<>>,
   sock_ttl |-> DefaultTtl, ttl |-> 0, past |-> FALSE,
   step |-> NoStep, slept |-> 0, since |-> 0]

\* poll of the operation p.op: the datagrams it sends, in order.
PollPlan(p) ==
  CASE p.op.op = "DetectSymmetricNat" ->
         (IF p.addr1.some THEN <<>>
          ELSE <<Sent(Query, ServerAddr, PeerLocal)>>)
         \o (IF p.addr2.some THEN <<>>
             ELSE <<Sent(Query, ServerAddr2, PeerLocal)>>)
    [] p.op.op = "Register" -> <<Sent(Register(p.id), ServerAddr, PeerLocal)>>
    [] p.op.op = "Lookup" -> <<Sent(Lookup(p.id), ServerAddr, PeerLocal)>>
    [] OTHER -> <<>>

\* The kinds of the messages of plan.
Kinds(plan) == {plan[i].msg.type : i \in 1..Len(plan)}

\* Mutant: resolve returns Ok as soon as both addresses are known.
DetectResolve_AnyPair(p, d) ==
  LET q == IF d.msg.type # "Address" THEN p
           ELSE IF d.from = ServerAddr
           THEN [p EXCEPT !.addr1 = SomeAddr(d.msg.addr)]
           ELSE IF d.from = ServerAddr2
           THEN [p EXCEPT !.addr2 = SomeAddr(d.msg.addr)]
           ELSE p
  IN  IF q # p /\ q.addr1.some /\ q.addr2.some
      THEN [q EXCEPT !.op = Resolve(@, "resolve_ok")]
      ELSE q
\* DetectSymmetricNat::resolve on a datagram: an Address from one of the
\* servers is recorded; once both are known resolve returns, Ok when they are
\* equal and the symmetric-nat error otherwise.
DetectResolve(p, d) ==
  LET q == IF d.msg.type # "Address" THEN p
           ELSE IF d.from = ServerAddr
           THEN [p EXCEPT !.addr1 = SomeAddr(d.msg.addr)]
           ELSE IF d.from = ServerAddr2
           THEN [p EXCEPT !.addr2 = SomeAddr(d.msg.addr)]
           ELSE p
  IN  IF q # p /\ q.addr1.some /\ q.addr2.some
      THEN IF q.addr1 = q.addr2
           THEN [q EXCEPT !.op = Resolve(@, "resolve_ok")]
           ELSE [q EXCEPT !.op = Resolve(@, "resolve_error"),
                          !.err = "symmetric nat"]
      ELSE q

\* Register::resolve: returns on RegisterAck.
RegisterResolve(p, d) ==
  IF d.msg.type = "RegisterAck"
  THEN [p EXCEPT !.op = Resolve(@, "resolve_ok")]
  ELSE p

\* Lookup::resolve: returns the address of a Peer message from the server.
LookupResolve(p, d) ==
  IF d.msg.type = "Peer" /\ d.from = ServerAddr
  THEN [p EXCEPT !.op = Resolve(@, "resolve_ok"), !.found = d.msg.addr]
  ELSE p

\* resolve of the operation being performed.
OpResolve(p, d) ==
  CASE p.op.op = "DetectSymmetricNat" -> DetectResolve(p, d)
    [] p.op.op = "Register" -> RegisterResolve(p, d)
    [] p.op.op = "Lookup" -> LookupResolve(p, d)
    [] OTHER -> p

\* run() after perform returned: the error is propagated with ?, otherwise
\* run goes on to Register (after connecting to the server), to Lookup, to
\* the responder's loop, or to the initiator's punch.
AfterPerform(p) ==
  IF p.op.ret # "resolve_ok"
  THEN [s |-> [p EXCEPT !.pc = "exited",
                        !.err = IF @ = "none" THEN p.op.ret ELSE @],
        out |-> <<>>]
  ELSE CASE p.pc = "detect" /\ p.role = "receive" ->
              [s |-> [p EXCEPT !.pc = "register", !.connect = ServerAddr,
                               !.op = NewPerform("Register")],
               out |-> <<>>]
         [] p.pc = "detect" /\ p.role = "send" ->
              [s |-> [p EXCEPT !.pc = "lookup",
                               !.op = NewPerform("Lookup")],
               out |-> <<>>]
         [] p.pc = "register" ->
              [s |-> [p EXCEPT !.pc = "main"], out |-> <<>>]
         [] p.pc = "lookup" /\ p.found.some ->
              [s |-> [p EXCEPT !.pc = "hello"], out |-> <<>>]
         [] OTHER ->
              [s |-> [p EXCEPT !.pc = "exited", !.err = "peer not found"],
               out |-> <<>>]

\* The datagrams of the set out that are addressed to the peer (the others
\* reach the environment).
ForPeer(out) == {d \in out : d.dst.ip = PeerLocal.ip}

\* What the environment sends to socket 1 of the server while an initiator
\* looks an id up: the other responder registers the id, or the id is
\* registered from the address the initiator has now (by a responder that ran
\* there before), and the other responder's punch task answers the Request
\* made for the initiator.
EnvInputs(p) ==
  {<<Register(p.id), OtherAddr>>,
   <<Register(p.id), NatMap(p.nat, PeerLocal, ServerAddr)>>,
   <<RdvResponse(NatMap(p.nat, PeerLocal, ServerAddr)), OtherTask>>}

\* At most MaxWire datagrams are in flight; what is sent beyond is lost.
MaxWire == 3
Carry(w, out) == IF Cardinality(w \cup out) <= MaxWire THEN w \cup out ELSE w

InitPeer ==
  /\ \E role \in {"send", "receive"}, nat \in {"cone", "symmetric"} :
       peer = NewPeer(role, nat, 1)
  /\ srv = NewServer
  /\ wire = {}
  /\ perf = NoPerform
  /\ snd = NewSender(0)
  /\ rcv = NewReceiver(NoFile)
  /\ part0 = NoFile
  /\ toR = {}
  /\ toS = {}
  /\ conf = [BLOCK_SIZE |-> BLOCK_SIZE, CHUNK_SIZE |-> CHUNK_SIZE]
  /\ faults = "any"
  /\ ev = NoEvent
  /\ calc = NoCalc

\* perform polls for the first time; the send numbered fail fails.
PeerPoll ==
  /\ peer.pc \in {"detect", "register", "lookup"}
  /\ peer.op.pc = "start"
  /\ LET plan == PollPlan(peer)
     IN  \E fail \in 0..Len(plan) :
           /\ peer' = [peer EXCEPT !.op = Poll(@, fail = 0),
                                   !.log = @ \cup Kinds(SentBefore(plan, fail))]
           /\ wire' = Carry(wire, Leave(peer, SentBefore(plan, fail)))
  /\ UNCHANGED <<file_vars, perf, srv>>

\* The retry timer expires before resolve returns.
PeerExpire ==
  /\ peer.pc \in {"detect", "register", "lookup"}
  /\ peer.op.pc = "waiting"
  /\ LET plan == IF MayRetry(peer.op.attempt) THEN PollPlan(peer) ELSE <<>>
     IN  \E fail \in 0..Len(plan) :
           /\ peer' = [peer EXCEPT !.op = Expire(@, fail = 0),
                                   !.log = @ \cup Kinds(SentBefore(plan, fail))]
           /\ wire' = Carry(wire, Leave(peer, SentBefore(plan, fail)))
  /\ UNCHANGED <<file_vars, perf, srv>>

\* resolve receives a datagram.
PeerResolve ==
  /\ peer.pc \in {"detect", "register", "lookup"}
  /\ peer.op.pc = "waiting"
  /\ \E d \in wire :
       /\ Reaches(peer, PeerLocal, peer.connect, d)
       /\ peer' = OpResolve(peer, d)
       /\ wire' = wire \ {d}
  /\ UNCHANGED <<file_vars, perf, srv>>

\* perform has returned and run goes on.
PeerContinue ==
  /\ peer.pc \in {"detect", "register", "lookup"}
  /\ peer.op.pc = "returned"
  /\ LET r == AfterPerform(peer)
     IN  /\ peer' = [r.s EXCEPT !.log = @ \cup Kinds(r.out)]
         /\ wire' = Carry(wire, ForPeer(Leave(peer, r.out)))
  /\ UNCHANGED <<file_vars, perf, srv>>

\* The server handles a datagram of the peer.
PeerServerRecv ==
  /\ srv.pc = "loop"
  /\ \E d \in wire :
       /\ d.dst \in {ServerAddr, ServerAddr2}
       /\ LET plan == IF d.dst = ServerAddr THEN Plan1(srv, d.msg, d.from)
                      ELSE IF d.msg.type = "Query"
                      THEN <<Sent(Address(d.from), d.from, ServerAddr2)>>
                      ELSE <<>>
          IN  \E fail \in 0..Len(plan) :
                /\ srv' = IF d.dst = ServerAddr
                          THEN OnSocket1(srv, d.msg, d.from, fail)
                          ELSE OnSocket2(srv, d.msg, d.from, fail)
                /\ wire' = Carry(wire \ {d}, ForPeer(Range(srv'.last.sent)))
  /\ UNCHANGED <<file_vars, perf, peer>>

\* The server handles a datagram of another peer.
PeerServerEnv ==
  /\ srv.pc = "loop"
  /\ peer.pc \in {"lookup", "hello", "punch"}
  /\ \E in \in EnvInputs(peer) :
       /\ srv' = OnSocket1(srv, in[1], in[2], 0)
       /\ wire' = Carry(wire, ForPeer(Range(srv'.last.sent)))
       /\ srv' # srv \/ wire' # wire
  /\ UNCHANGED <<file_vars, perf, peer>>

\* A datagram in flight is lost.
PeerLose ==
  /\ \E d \in wire : wire' = wire \ {d}
  /\ UNCHANGED <<file_vars, perf, srv, peer>>

\* ---------------------------------------------------------------- initiator
\* run returns the error e.
Exit(p, e) == [p EXCEPT !.pc = "exited", !.err = e, !.out = <<>>]

\* Socket::send_to on the main socket: the datagram leaves with the TTL the
\* socket has.
SendTo(p, msg, dst) == Dgram(msg, dst, PeerLocal, p.sock_ttl)

\* Socket::send: on an unconnected socket the debug assertion (or the unwrap
\* of connect in the debug log) panics, or the send of the OS fails.
SendFails(p) == p.connect = NoAddr
SendFailures == {"panic", "not connected"}

\* Mutant: the TTL is not restored after the first Hello.
FirstHello_NoRestore(p, fail) ==
  LET a == p.found.v
      p1 == [p EXCEPT !.ttl = p.sock_ttl]
      p2 == [p1 EXCEPT !.sock_ttl = PunchTtl]
      d3 == SendTo(p2, Hello, a)
      d5 == SendTo(p2, Hello, a)
  IN  CASE fail = 0 -> [p2 EXCEPT !.pc = "punch", !.out = <<d3, d5>>]
        [] fail = 1 -> Exit(p, "io")
        [] fail = 2 -> Exit(p1, "io")
        [] fail = 3 -> Exit(p2, "io")
        [] OTHER -> [Exit(p2, "io") EXCEPT !.out = <<d3>>]

\* run after Lookup returned Some(peer_addr): the TTL is saved, set to 6 for
\* the first Hello and restored, and after 50 ms Hello is sent again; the
\* call numbered fail (ttl, set_ttl, send_to, set_ttl, send_to) fails.
FirstHello(p, fail) ==
  LET a == p.found.v
      p1 == [p EXCEPT !.ttl = p.sock_ttl]
      p2 == [p1 EXCEPT !.sock_ttl = PunchTtl]
      d3 == SendTo(p2, Hello, a)
      p4 == [p2 EXCEPT !.sock_ttl = p1.ttl]
      d5 == SendTo(p4, Hello, a)
  IN  CASE fail = 0 -> [p4 EXCEPT !.pc = "punch", !.out = <<d3, d5>>]
        [] fail = 1 -> Exit(p, "io")
        [] fail = 2 -> Exit(p1, "io")
        [] fail = 3 -> Exit(p2, "io")
        [] fail = 4 -> [Exit(p2, "io") EXCEPT !.out = <<d3>>]
        [] OTHER -> [Exit(p4, "io") EXCEPT !.out = <<d3>>]

\* Mutant: a Hello from any source completes the punch.
PunchArm_AnySource(p, d, how) ==
  IF d.msg.type = "Hello"
  THEN IF how = "connect_error" THEN Exit(p, "io")
       ELSE LET q == [p EXCEPT !.connect = p.found.v]
            IN  IF how = "send_error" THEN Exit(q, "io")
                ELSE [q EXCEPT !.pc = "sender",
                               !.out = <<SendTo(q, HelloAck, q.connect)>>]
  ELSE IF SendFails(p) THEN Exit(p, how)
       ELSE IF how = "send_error" THEN Exit(p, "io")
       ELSE [p EXCEPT !.out = <<SendTo(p, Hello, p.connect)>>]

\* The recv_from arm of the initiator's loop for the datagram d; how is the
\* outcome of the socket calls made.  A Hello from peer_addr connects the
\* socket, sends HelloAck and leaves the loop; after any other datagram the
\* arm calls Socket::send(&Hello).
PunchArm(p, d, how) ==
  IF d.msg.type = "Hello" /\ d.from = p.found.v
  THEN IF how = "connect_error" THEN Exit(p, "io")
       ELSE LET q == [p EXCEPT !.connect = p.found.v]
            IN  IF how = "send_error" THEN Exit(q, "io")
                ELSE [q EXCEPT !.pc = "sender",
                               !.out = <<SendTo(q, HelloAck, q.connect)>>]
  ELSE IF SendFails(p) THEN Exit(p, how)
       ELSE IF how = "send_error" THEN Exit(p, "io")
       ELSE [p EXCEPT !.out = <<SendTo(p, Hello, p.connect)>>]

\* The outcomes the socket calls of the arm can have.
ArmOutcomes(p, d) ==
  IF d.msg.type = "Hello" /\ d.from = p.found.v
  THEN {"ok", "connect_error", "send_error"}
  ELSE IF SendFails(p) THEN SendFailures
  ELSE {"ok", "send_error"}

\* The 100 ms arm: before the deadline Hello is sent to peer_addr again,
\* afterwards the punch has failed.
PunchSleep(p, late, ok) ==
  IF late THEN Exit([p EXCEPT !.past = TRUE], "timeout")
  ELSE IF ok THEN [p EXCEPT !.out = <<SendTo(p, Hello, p.found.v)>>]
  ELSE Exit(p, "io")

\* send(sock, &file): the file sender sends m on the connected socket.
FileSend(p, m) ==
  IF SendFails(p) THEN Exit(p, "not connected")
  ELSE [p EXCEPT !.pc = "sending", !.out = <<SendTo(p, m, p.connect)>>]

\* The initiator's first two Hello.
PeerHello ==
  /\ peer.pc = "hello"
  /\ \E fail \in 0..5 :
       peer' = [FirstHello(peer, fail) EXCEPT
                  !.log = @ \cup Kinds(FirstHello(peer, fail).out)]
  /\ UNCHANGED <<file_vars, perf, srv, wire>>

\* A datagram arrives in the initiator's loop.
PeerPunchRecv ==
  /\ peer.pc = "punch"
  /\ \E d \in wire :
       /\ Reaches(peer, PeerLocal, peer.connect, d)
       /\ \E how \in ArmOutcomes(peer, d) :
            peer' = [PunchArm(peer, d, how) EXCEPT
                       !.recv = d.msg,
                       !.log = @ \cup Kinds(PunchArm(peer, d, how).out)]
       /\ wire' = wire \ {d}
  /\ UNCHANGED <<file_vars, perf, srv>>

\* recv_from fails, or the 100 ms sleep of the initiator's loop ends, before
\* or after the deadline.
PeerPunchSleep ==
  /\ peer.pc = "punch"
  /\ \/ peer' = [Exit(peer, "io") EXCEPT !.recv = NoMsg]
     \/ \E late \in BOOLEAN, ok \in BOOLEAN :
          peer' = [PunchSleep(peer, late, ok) EXCEPT !.recv = NoMsg]
  /\ UNCHANGED <<file_vars, perf, srv, wire>>

\* The file sender sends a message, and returns.
PeerFile ==
  /\ \/ /\ peer.pc \in {"sender", "sending"}
        /\ \E m \in {Request(0), FileCompleteAck} :
             peer' = [FileSend(peer, m) EXCEPT !.recv = NoMsg]
     \/ /\ peer.pc = "sending"
        /\ peer' = [peer EXCEPT !.pc = "done", !.recv = NoMsg, !.out = <<>>]
  /\ UNCHANGED <<file_vars, perf, srv, wire>>

\* The responder's punch task, or another host, sends Hello to the
\* initiator.
PeerEnvHello ==
  /\ peer.pc = "punch"
  /\ \E a \in {OtherTask, OtherAddr} :
       LET d == Sent(Hello, NatMap(peer.nat, PeerLocal, a), a)
       IN  /\ d \notin wire
           /\ wire' = Carry(wire, {d})
           /\ wire' # wire
  /\ UNCHANGED <<file_vars, perf, srv, peer>>

\* --------------------------------------------------- responder, punch tasks
\* At most MaxSignals wake signals wait in an inbox.
MaxSignals == 2

\* The local address of the socket of the punch task for peer_addr.
TaskLocal(peer_addr) ==
  Addr(PeerLocal.ip, IF peer_addr.ip = "q" THEN 2 ELSE 3)

\* The task spawned for peer_addr, before handle_punch has run: rx is the
\* receiving half of its inbox (it lives until handle_punch returns), queued
\* the wake signals waiting in it, past whether the 1 s deadline has passed,
\* ttl the TTL of its socket, acked the history of whether a ResponseAck of
\* the server was ever received.
NewTask(peer_addr) ==
  [peer_addr |-> peer_addr, pc |-> "start", server_ack |-> FALSE,
   hello |-> FALSE, ttl |-> DefaultTtl, past |-> FALSE, rx |-> TRUE,
   queued |-> 0, result |-> "none", acked |-> FALSE]

\* handle_punch returns: its arguments, rx among them, are dropped.
PunchReturn(t, res) ==
  [t EXCEPT !.pc = "returned", !.result = res, !.rx = FALSE,
            !.queued = 0]

\* The Response the task sends to the server, and its Hello, with the TTL
\* its socket has.
TaskResponse(t) ==
  Dgram(RdvResponse(t.peer_addr), ServerAddr, TaskLocal(t.peer_addr), t.ttl)
TaskHello(t) == Dgram(Hello, t.peer_addr, TaskLocal(t.peer_addr), t.ttl)

\* handle_punch up to its loop: the socket is made and Response is sent.
PunchStart(t, ok) ==
  IF ok THEN [s |-> [t EXCEPT !.pc = "punch"], out |-> <<TaskResponse(t)>>]
  ELSE [s |-> PunchReturn(t, "error"), out |-> <<>>]

\* Mutant: a HelloAck from any address ends the loop.
PunchRecv_AnyAck(t, d) ==
  CASE d.msg.type = "ResponseAck" /\ d.from = ServerAddr ->
         LET u == [t EXCEPT !.server_ack = TRUE, !.acked = TRUE,
                            !.ttl = PunchTtl]
         IN  [s |-> u, out |-> <<TaskHello(u)>>]
    [] d.msg.type = "Hello" /\ d.from = t.peer_addr ->
         LET u == [t EXCEPT !.hello = TRUE, !.ttl = DefaultTtl]
         IN  [s |-> u, out |-> <<TaskHello(u)>>]
    [] d.msg.type = "HelloAck" ->
         [s |-> [t EXCEPT !.ttl = DefaultTtl, !.pc = "receive"],
          out |-> <<>>]
    [] OTHER -> [s |-> t, out |-> <<>>]
\* The recv_from arm of the loop of handle_punch.
PunchRecv(t, d) ==
  CASE d.msg.type = "ResponseAck" /\ d.from = ServerAddr ->
         LET u == [t EXCEPT !.server_ack = TRUE, !.acked = TRUE,
                            !.ttl = PunchTtl]
         IN  [s |-> u, out |-> <<TaskHello(u)>>]
    [] d.msg.type = "Hello" /\ d.from = t.peer_addr ->
         LET u == [t EXCEPT !.hello = TRUE, !.ttl = DefaultTtl]
         IN  [s |-> u, out |-> <<TaskHello(u)>>]
    [] d.msg.type = "HelloAck" /\ d.from = t.peer_addr ->
         [s |-> [t EXCEPT !.ttl = DefaultTtl, !.pc = "receive"],
          out |-> <<>>]
    [] OTHER -> [s |-> t, out |-> <<>>]

\* Mutant: a wake signal leaves server_ack as it is.
PunchWake_KeepAck(t) ==
  LET u == [t EXCEPT !.queued = @ - 1, !.ttl = DefaultTtl]
  IN  [s |-> u, out |-> <<TaskResponse(u)>>]
\* The rx.recv() arm, enabled while hello is false.
PunchWake(t) ==
  LET u == [t EXCEPT !.queued = @ - 1, !.server_ack = FALSE,
                     !.ttl = DefaultTtl]
  IN  [s |-> u, out |-> <<TaskResponse(u)>>]

\* Mutant: every tick before the deadline sends Hello.
PunchTick_AlwaysHello(t) ==
  IF t.past
  THEN IF t.hello THEN [s |-> [t EXCEPT !.pc = "receive"], out |-> <<>>]
       ELSE [s |-> PunchReturn(t, "timeout"), out |-> <<>>]
  ELSE [s |-> t, out |-> <<TaskHello(t)>>]
\* The 150 ms arm.
PunchTick(t) ==
  IF t.past
  THEN IF t.hello THEN [s |-> [t EXCEPT !.pc = "receive"], out |-> <<>>]
       ELSE [s |-> PunchReturn(t, "timeout"), out |-> <<>>]
  ELSE IF t.server_ack THEN [s |-> t, out |-> <<TaskHello(t)>>]
  ELSE [s |-> t, out |-> <<TaskResponse(t)>>]

\* The smallest number that names no task.
FreeTask(p) ==
  CHOOSE i \in 1..(Cardinality(DOMAIN p.tasks) + 1) : i \notin DOMAIN p.tasks

\* The Request arm of the responder's loop: a vacant entry gets the sending
\* half of a new inbox and a task is spawned; an occupied entry's inbox is
\* sent a wake signal, and run returns the error of a send that fails
\* because the receiving half is gone.
OnRdvRequest(p, peer_addr) ==
  IF peer_addr \notin DOMAIN p.map
  THEN LET i == FreeTask(p)
       IN  [p EXCEPT
              !.map = [a \in DOMAIN @ \cup {peer_addr} |->
                         IF a = peer_addr THEN i ELSE @[a]],
              !.tasks = [j \in DOMAIN @ \cup {i} |->
                           IF j = i THEN NewTask(peer_addr) ELSE @[j]],
              !.recv = RdvRequest(peer_addr), !.out = <<>>,
              !.step = Step("main", NoAddr, NoAddr),
               !.slept = 0]
  ELSE LET i == p.map[peer_addr]
       IN  IF i \in DOMAIN p.tasks /\ p.tasks[i].rx
           THEN [p EXCEPT !.tasks[i].queued = @ + 1,
                          !.recv = RdvRequest(peer_addr), !.out = <<>>,
                          !.step = Step("main", NoAddr, NoAddr),
               !.slept = 0]
           ELSE [p EXCEPT !.pc = "exited", !.err = "wake",
                          !.recv = RdvRequest(peer_addr), !.out = <<>>,
                          !.step = Step("main", NoAddr, NoAddr),
               !.slept = 0]

\* The sleep arm of the responder's loop: Register is sent to the server
\* again; slept is the time the sleep of this iteration of the loop has
\* run, since the time since Register was last sent.
OnSleep(p) ==
  [p EXCEPT !.recv = NoMsg,
            !.out = <<SendTo(p, Register(p.id), ServerAddr)>>,
            !.step = Step("main", NoAddr, NoAddr),
            !.slept = 0, !.since = 0]

\* The recv arm of the responder's loop.
OnMainRecv(p, d) ==
  IF d.msg.type = "Request" THEN OnRdvRequest(p, d.msg.peer_addr)
  ELSE [p EXCEPT !.recv = d.msg, !.out = <<>>,
                 !.step = Step("main", NoAddr, NoAddr),
               !.slept = 0]

\* The spawned task after handle_punch: peers.remove(&peer_addr), and the
\* task ends.
TaskRemove(p, i) ==
  [p EXCEPT
     !.map = [a \in DOMAIN @ \ {p.tasks[i].peer_addr} |-> @[a]],
     !.tasks = [j \in DOMAIN @ \ {i} |-> @[j]],
     !.recv = NoMsg, !.out = <<>>,
     !.step = Step("exit", p.tasks[i].peer_addr, NoAddr)]

\* The responder's loop on its own, with the datagrams that arrive chosen
\* freely: the peer has the address PeerLocal at both servers, has connected
\* its socket to the server and has registered.
MainPeer ==
  [NewPeer("receive", "cone", 1) EXCEPT
     !.pc = "main",
     !.op = Resolve(Poll(NewPerform("Register"), TRUE), "resolve_ok"),
     !.addr1 = SomeAddr(PeerLocal),
     !.addr2 = SomeAddr(PeerLocal),
     !.connect = ServerAddr,
     !.log = {"Query", "Register"}]

\* What arrives on the connected socket of the loop, and on the socket of
\* the task t.
MainInputs ==
  {Sent(m, PeerLocal, ServerAddr) :
     m \in {RdvRequest(a) : a \in Initiators} \cup {RegisterAck}}
TaskInputs(t) ==
  {Sent(ResponseAck, TaskLocal(t.peer_addr), ServerAddr)}
    \cup {Sent(m, TaskLocal(t.peer_addr), a) :
            m \in {Hello, HelloAck, ResponseAck}, a \in Initiators}

InitResponder ==
  /\ peer = MainPeer
  /\ srv = NoServer
  /\ wire = {}
  /\ perf = NoPerform
  /\ snd = NewSender(0)
  /\ rcv = NewReceiver(NoFile)
  /\ part0 = NoFile
  /\ toR = {}
  /\ toS = {}
  /\ conf = [BLOCK_SIZE |-> BLOCK_SIZE, CHUNK_SIZE |-> CHUNK_SIZE]
  /\ faults = "any"
  /\ ev = NoEvent
  /\ calc = NoCalc

\* A datagram arrives in the responder's loop.
MainRecv ==
  /\ peer.pc = "main"
  /\ \E d \in MainInputs :
       /\ d.msg.type = "Request" =>
            \A i \in DOMAIN peer.tasks : peer.tasks[i].queued < MaxSignals
       /\ peer' = OnMainRecv(peer, d)
  /\ UNCHANGED <<file_vars, perf, srv, wire>>

\* recv fails in the responder's loop, or the 30 s sleep ends and Register
\* is sent again (ok) or its send fails.
MainTimerOrError ==
  /\ peer.pc = "main"
  /\ \E e \in {"recv", "send", "ok"} :
       peer' = IF e = "ok" THEN OnSleep(peer)
               ELSE [peer EXCEPT !.pc = "exited", !.err = e,
                                 !.recv = NoMsg, !.out = <<>>,
                                 !.step = Step("main", NoAddr, NoAddr)]
  /\ UNCHANGED <<file_vars, perf, srv, wire>>

\* The task i takes the step r of handle_punch, in the arm named, on the
\* message msg that came from src.
TaskStep(i, arm, msg, src, r) ==
  peer' = [peer EXCEPT !.tasks[i] = r.s, !.recv = msg, !.out = r.out,
                       !.step = Step(arm, peer.tasks[i].peer_addr, src)]

\* A spawned task starts handle_punch.
TaskStart ==
  /\ peer.pc = "main"
  /\ \E i \in DOMAIN peer.tasks :
       /\ peer.tasks[i].pc = "start"
       /\ \E ok \in BOOLEAN : TaskStep(i, "start", NoMsg, NoAddr, PunchStart(peer.tasks[i], ok))
  /\ UNCHANGED <<file_vars, perf, srv, wire>>

\* A datagram arrives on the socket of a task.
TaskRecv ==
  /\ peer.pc = "main"
  /\ \E i \in DOMAIN peer.tasks :
       /\ peer.tasks[i].pc = "punch"
       /\ \E d \in TaskInputs(peer.tasks[i]) :
            TaskStep(i, "recv", d.msg, d.from, PunchRecv(peer.tasks[i], d))
  /\ UNCHANGED <<file_vars, perf, srv, wire>>

\* A task takes a wake signal from its inbox.
TaskWake ==
  /\ peer.pc = "main"
  /\ \E i \in DOMAIN peer.tasks :
       /\ peer.tasks[i].pc = "punch"
       /\ ~peer.tasks[i].hello
       /\ peer.tasks[i].queued > 0
       /\ TaskStep(i, "wake", NoMsg, NoAddr, PunchWake(peer.tasks[i]))
  /\ UNCHANGED <<file_vars, perf, srv, wire>>

\* The 150 ms sleep of a task ends, before or after the deadline.
TaskTick ==
  /\ peer.pc = "main"
  /\ \E i \in DOMAIN peer.tasks : \E late \in BOOLEAN :
       /\ peer.tasks[i].pc = "punch"
       /\ peer.tasks[i].past => late
       /\ TaskStep(i, "tick", NoMsg, NoAddr,
                   PunchTick([peer.tasks[i] EXCEPT !.past = late]))
  /\ UNCHANGED <<file_vars, perf, srv, wire>>

\* A socket call of handle_punch fails, or receive() returns.
TaskReturn ==
  /\ peer.pc = "main"
  /\ \E i \in DOMAIN peer.tasks :
       \/ /\ peer.tasks[i].pc = "punch"
          /\ TaskStep(i, "return", NoMsg, NoAddr,
                      [s |-> PunchReturn(peer.tasks[i], "error"),
                       out |-> <<>>])
       \/ /\ peer.tasks[i].pc = "receive"
          /\ \E res \in {"ok", "error"} :
               TaskStep(i, "return", NoMsg, NoAddr,
                        [s |-> PunchReturn(peer.tasks[i], res),
                         out |-> <<>>])
  /\ UNCHANGED <<file_vars, perf, srv, wire>>

\* A task whose handle_punch has returned removes its entry and ends.
TaskExit ==
  /\ peer.pc = "main"
  /\ \E i \in DOMAIN peer.tasks :
       /\ peer.tasks[i].pc = "returned"
       /\ peer' = TaskRemove(peer, i)
  /\ UNCHANGED <<file_vars, perf, srv, wire>>

NextResponder ==
  \/ MainRecv \/ MainTimerOrError
  \/ TaskStart \/ TaskRecv \/ TaskWake \/ TaskTick \/ TaskReturn \/ TaskExit

SpecResponder == InitResponder /\ [][NextResponder]_vars

\* ------------------------------------------------- responder, the keepalive
\* sleep(Duration::from_secs(30)) of the responder's loop.
KEEPALIVE_SECS == 30
\* Seconds by which time is seen to advance, and the longest time without a
\* Register that is followed.
KeepStep == 10
MaxSilence == 60

\* Time passes while the loop waits in select!: never beyond the moment the
\* sleep of this iteration is due.
KeepTime ==
  /\ peer.pc = "main"
  /\ peer.slept < KEEPALIVE_SECS
  /\ peer.since < MaxSilence
  /\ LET d == Min(KeepStep, KEEPALIVE_SECS - peer.slept)
     IN  peer' = [peer EXCEPT !.slept = @ + d, !.since = @ + d]
  /\ UNCHANGED <<file_vars, perf, srv, wire>>

\* recv fails, or the sleep of this iteration is due: Register is sent again
\* (ok), or its send fails.
KeepSleepOrError ==
  /\ peer.pc = "main"
  /\ \E e \in {"recv", "send", "ok"} :
       /\ e # "recv" => peer.slept = KEEPALIVE_SECS
       /\ peer' = IF e = "ok" THEN OnSleep(peer)
                  ELSE [peer EXCEPT !.pc = "exited", !.err = e,
                                    !.recv = NoMsg, !.out = <<>>,
                                    !.step = Step("main", NoAddr, NoAddr)]
  /\ UNCHANGED <<file_vars, perf, srv, wire>>

NextKeepalive == MainRecv \/ KeepTime \/ KeepSleepOrError

SpecKeepalive == InitResponder /\ [][NextKeepalive]_vars

NextPeer ==
  \/ PeerPoll \/ PeerExpire \/ PeerResolve \/ PeerContinue
  \/ PeerServerRecv \/ PeerServerEnv \/ PeerLose
  \/ PeerHello \/ PeerPunchRecv \/ PeerPunchSleep \/ PeerFile \/ PeerEnvHello

SpecPeer == InitPeer /\ [][NextPeer]_vars

\* ---------------------------------------------------------------------
\* BitArray on its own: arrays of up to MaxWords words and a bit more, with
\* the bits at the ends of the array and of its words.
MaxWords == 2
BitLens ==
  UNION {{w * WordBits - 1, w * WordBits, w * WordBits + 1} :
           w \in 0..MaxWords} \cap Nat
BitIndices(len) ==
  ({0, 1, len - 2, len - 1}
     \cup UNION {{w * WordBits - 1, w * WordBits} : w \in 1..MaxWords})
    \cap (0..(len - 1))

InitBits ==
  /\ calc = NoCalc
  /\ perf = NoPerform
  /\ snd = NewSender(0)
  /\ rcv = NewReceiver(NoFile)
  /\ part0 = NoFile
  /\ toR = {}
  /\ toS = {}
  /\ conf = [BLOCK_SIZE |-> BLOCK_SIZE, CHUNK_SIZE |-> CHUNK_SIZE]
  /\ faults = "any"
  /\ ev = NoEvent
  /\ srv = NoServer
  /\ wire = {}
  /\ peer = NoPeers

\* calc.ba is the array, calc.S the indices set since the last reset,
\* calc.old the len the array had before it (-1: the array is new).
BitsNew ==
  /\ calc = NoCalc
  /\ \E len \in BitLens :
       calc' = [pc |-> "bits", ba |-> BitArray_new(len), S |-> {},
                old |-> 0 - 1]
  /\ UNCHANGED prog_vars

BitsReset ==
  /\ calc.pc = "bits"
  /\ \E len \in BitLens :
       calc' = [calc EXCEPT !.ba = reset(calc.ba, len), !.S = {},
                            !.old = calc.ba.len]
  /\ UNCHANGED prog_vars

BitsSet ==
  /\ calc.pc = "bits"
  /\ \E i \in BitIndices(calc.ba.len) :
       calc' = [calc EXCEPT !.ba = set(calc.ba, i), !.S = @ \cup {i}]
  /\ UNCHANGED prog_vars

NextBits == BitsNew \/ BitsReset \/ BitsSet

SpecBits == InitBits /\ [][NextBits]_vars

\* ---------------------------------------------------------------------
\* Block arithmetic at the width of the code.  A u64 or a u32 is the
\* sequence of its 16-bit digits, least significant first, five of them so
\* that a product of a u64 and a block size fits; block sizes are below
\* 2^15, which keeps every intermediate result within TLC's integers.
Base == 256 * 256
Wide(d0, d1, d2) == <<d0, d1, d2, 0, 0>>
RECURSIVE Carried(_, _, _)
Carried(x, i, c) ==
  IF i > Len(x) THEN <<>>
  ELSE LET v == x[i] + c
       IN  <<v % Base>> \o Carried(x, i + 1, v \div Base)
AddSmall(x, n) == Carried([x EXCEPT ![1] = @ + n], 1, 0)
MulSmall(x, b) == Carried([i \in 1..Len(x) |-> x[i] * b], 1, 0)
RECURSIVE RemFrom(_, _, _)
RemFrom(x, i, b) ==
  IF i > Len(x) THEN 0 ELSE (RemFrom(x, i + 1, b) * Base + x[i]) % b
DivSmall(x, b) ==
  [i \in 1..Len(x) |-> (RemFrom(x, i + 1, b) * Base + x[i]) \div b]
ModSmall(x, b) == RemFrom(x, 1, b)
\* `q as u32`: the low 32 bits.
AsU32(x) == [i \in 1..Len(x) |-> IF i <= 2 THEN x[i] ELSE 0]
\* x - 1 for a u32 that is not 0.
SubOne(x) ==
  IF x[1] > 0 THEN [x EXCEPT ![1] = @ - 1]
  ELSE [x EXCEPT ![1] = Base - 1, ![2] = @ - 1]

\* last_block_index_size on a u64 file_size; `q as u32 - 1` with the low
\* 32 bits of q all 0 panics in a debug build and wraps in a release build.
last_block_index_size_u64(file_size, block_size, debug) ==
  LET q == DivSmall(file_size, block_size)
      r == ModSmall(file_size, block_size)
  IN  IF r = 0
      THEN IF AsU32(q) = Wide(0, 0, 0)
           THEN [panic |-> debug, last |-> Wide(Base - 1, Base - 1, 0),
                 last_size |-> block_size]
           ELSE [panic |-> FALSE, last |-> SubOne(AsU32(q)),
                 last_size |-> block_size]
      ELSE [panic |-> FALSE, last |-> AsU32(q), last_size |-> r]

\* The file sizes, block sizes and chunk sizes of the evaluation.
MaxArith == 12
WideDigits == {0, 1, 2, Base - 1}
WideSizes ==
  {Wide(d0, d1, d2) : d0 \in WideDigits, d1 \in WideDigits,
                      d2 \in {0, 1}} \ {Wide(0, 0, 0)}
ArithBlockSizes == {1, 2, 3, 1000}

InitArith ==
  /\ calc = NoCalc
  /\ perf = NoPerform
  /\ snd = NewSender(0)
  /\ rcv = NewReceiver(NoFile)
  /\ part0 = NoFile
  /\ toR = {}
  /\ toS = {}
  /\ conf = [BLOCK_SIZE |-> BLOCK_SIZE, CHUNK_SIZE |-> CHUNK_SIZE]
  /\ faults = "any"
  /\ ev = NoEvent
  /\ srv = NoServer
  /\ wire = {}
  /\ peer = NoPeers

\* BlockReader::new or BlockWriter::new computes the last block of a file.
ArithLastBlock ==
  /\ calc = NoCalc
  /\ \E file_size \in WideSizes, block_size \in ArithBlockSizes,
        debug \in BOOLEAN :
       calc' = [pc |-> "blocks", file_size |-> file_size,
                block_size |-> block_size,
                out |-> last_block_index_size_u64(file_size, block_size,
                                                  debug)]
  /\ UNCHANGED prog_vars

\* BlockWriter::next_block for a block of block_size bytes.
ArithNextBlock ==
  /\ calc = NoCalc
  /\ \E block_size \in 1..MaxArith, chunk_size \in 1..MaxArith :
       LET w == next_block([NewReceiver(NoFile) EXCEPT
                              !.block_size = block_size,
                              !.last_block_size = block_size,
                              !.chunk_size = chunk_size])
       IN  calc' = [pc |-> "chunks", block_size |-> block_size,
                    chunk_size |-> chunk_size,
                    last_chunk |-> w.r.last_chunk,
                    last_chunk_size |-> w.r.last_chunk_size,
                    chunk_count |-> w.r.write_flag.len]
  /\ UNCHANGED prog_vars

NextArith == ArithLastBlock \/ ArithNextBlock

SpecArith == InitArith /\ [][NextArith]_vars

\* ---------------------------------------------------------------------
\* The codec of the rendezvous messages (message.rs) and the receiving
\* side of Socket (socket.rs).  A datagram is a sequence of bytes.

\* The length of the buffers the peer and the server receive into.
RECV_BUF_SIZE == 256
MAGIC == <<205, 126, 86, 230, 111, 189, 169, 142>>

\* bincode writes an integer in k bytes, least significant first (every
\* integer of this model is below 65536).
LE(n, k) ==
  [i \in 1..k |-> IF i = 1 THEN n % 256
                  ELSE IF i = 2 THEN (n \div 256) % 256 ELSE 0]
\* The integer bincode reads from the bytes, capped at 65536, which is more
\* than any tag, and any length a datagram can hold.
FromLE(bytes) ==
  IF \E i \in 3..Len(bytes) : bytes[i] # 0 THEN 65536
  ELSE bytes[1] + (IF Len(bytes) > 1 THEN 256 * bytes[2] ELSE 0)
Skip(data, k) == SubSeq(data, k + 1, Len(data))

\* The position of each variant in enum Message.
Variants ==
  <<"Query", "Address", "Register", "RegisterAck", "Lookup", "Peer",
    "Request", "Response", "ResponseAck", "Hello", "HelloAck">>
VariantIndex(type) == CHOOSE i \in 1..Len(Variants) : Variants[i] = type

\* A SocketAddr is V4 (4 address bytes) or V6 (16): the variant, the
\* address bytes, the port.
SerAddr(a) ==
  LE(IF Len(a.ip) = 4 THEN 0 ELSE 1, 4) \o a.ip \o LE(a.port, 2)
\* Option<SocketAddr>: one byte says whether a value follows.
SerOption(o) == IF o.some THEN <<1>> \o SerAddr(o.v) ELSE <<0>>
\* Vec<u8>: the length in 8 bytes, then the bytes.
SerBytes(id) == LE(Len(id), 8) \o id

\* bincode::serialize_into for Message: the variant in 4 bytes, then the
\* fields.
serialize_into(m) ==
  LE(VariantIndex(m.type) - 1, 4) \o
    (CASE m.type = "Address" -> SerAddr(m.addr)
       [] m.type = "Register" -> SerBytes(m.id)
       [] m.type = "Lookup" -> SerBytes(m.peer_id)
       [] m.type = "Peer" -> SerOption(m.addr)
       [] m.type \in {"Request", "Response"} -> SerAddr(m.peer_addr)
       [] OTHER -> <<>>)

\* Message::encode.
encode(m) == serialize_into(m) \o MAGIC

\* What a deserializer returns: a value and the bytes it did not read, or
\* an error.
Parsed(v, rest) == [ok |-> TRUE, v |-> v, rest |-> rest]
ParseError == [ok |-> FALSE, v |-> NoMsg, rest |-> <<>>]

DeAddr(data) ==
  IF Len(data) < 4 THEN ParseError
  ELSE LET tag == FromLE(SubSeq(data, 1, 4))
           n == IF tag = 0 THEN 4 ELSE 16
       IN  IF tag > 1 \/ Len(data) < 4 + n + 2 THEN ParseError
           ELSE Parsed(Addr(SubSeq(data, 5, 4 + n),
                            FromLE(SubSeq(data, 5 + n, 6 + n))),
                       Skip(data, 6 + n))
DeOption(data) ==
  IF Len(data) < 1 THEN ParseError
  ELSE IF data[1] = 0 THEN Parsed([some |-> FALSE, v |-> Addr(<<>>, 0)],
                                  Skip(data, 1))
  ELSE IF data[1] = 1
  THEN LET r == DeAddr(Skip(data, 1))
       IN  IF r.ok THEN Parsed([some |-> TRUE, v |-> r.v], r.rest)
           ELSE ParseError
  ELSE ParseError
DeBytes(data) ==
  IF Len(data) < 8 THEN ParseError
  ELSE LET n == FromLE(SubSeq(data, 1, 8))
       IN  IF Len(data) - 8 < n THEN ParseError
           ELSE Parsed(SubSeq(data, 9, 8 + n), Skip(data, 8 + n))

\* bincode::deserialize_from(&mut data) for Message: the value, and data
\* advanced past the bytes read.
deserialize_from(data) ==
  IF Len(data) < 4 \/ FromLE(SubSeq(data, 1, 4)) >= Len(Variants)
  THEN ParseError
  ELSE LET type == Variants[FromLE(SubSeq(data, 1, 4)) + 1]
           body == Skip(data, 4)
           Field(r, m) == IF r.ok THEN Parsed(m, r.rest) ELSE ParseError
       IN  CASE type = "Address" ->
                  LET r == DeAddr(body) IN Field(r, Address(r.v))
             [] type = "Register" ->
                  LET r == DeBytes(body) IN Field(r, Register(r.v))
             [] type = "Lookup" ->
                  LET r == DeBytes(body) IN Field(r, Lookup(r.v))
             [] type = "Peer" ->
                  LET r == DeOption(body) IN Field(r, Peer(r.v))
             [] type = "Request" ->
                  LET r == DeAddr(body) IN Field(r, RdvRequest(r.v))
             [] type = "Response" ->
                  LET r == DeAddr(body) IN Field(r, RdvResponse(r.v))
             [] OTHER -> Parsed([type |-> type], body)

\* Message::decode; NoMsg is None.
decode(data) ==
  LET r == deserialize_from(data)
  IN  IF r.ok /\ r.rest = MAGIC THEN r.v ELSE NoMsg

\* Socket::recv_from and Socket::recv: the datagram is cut to the length of
\* the buffer, and a datagram that does not decode is skipped (NoMsg: the
\* loop waits for the next one).
recv_from(datagram) ==
  decode(SubSeq(datagram, 1, Min(Len(datagram), RECV_BUF_SIZE)))

\* The messages and the damaged datagrams of the model.
MaxExtra == 2
CodecAddrs ==
  {Addr(<<192, 168, 1, 2>>, 4660),
   Addr([i \in 1..16 |-> IF i = 16 THEN 1 ELSE 0], 443)}
\* The longest id whose Register fills the receive buffer.
LongId == [i \in 1..(RECV_BUF_SIZE - Len(MAGIC) - 12) |-> 97]
CodecIds == {<<>>, <<7, 1>>, LongId}
CodecMessages ==
  {Query, RegisterAck, ResponseAck, Hello, HelloAck,
   Peer([some |-> FALSE, v |-> Addr(<<>>, 0)])}
    \cup {Address(a) : a \in CodecAddrs}
    \cup {Peer([some |-> TRUE, v |-> a]) : a \in CodecAddrs}
    \cup {RdvRequest(a) : a \in CodecAddrs}
    \cup {RdvResponse(a) : a \in CodecAddrs}
    \cup {Register(id) : id \in CodecIds}
    \cup {Lookup(id) : id \in CodecIds}
ExtraBytes == {0, MAGIC[Len(MAGIC)]}
\* One bit of the byte is inverted.
FlipBit(b) == IF b % 2 = 0 THEN b + 1 ELSE b - 1

InitCodec ==
  /\ calc = NoCalc
  /\ perf = NoPerform
  /\ snd = NewSender(0)
  /\ rcv = NewReceiver(NoFile)
  /\ part0 = NoFile
  /\ toR = {}
  /\ toS = {}
  /\ conf = [BLOCK_SIZE |-> BLOCK_SIZE, CHUNK_SIZE |-> CHUNK_SIZE]
  /\ faults = "any"
  /\ ev = NoEvent
  /\ srv = NoServer
  /\ wire = {}
  /\ peer = NoPeers

\* A message is encoded and sent.
CodecEncode ==
  /\ calc = NoCalc
  /\ \E m \in CodecMessages :
       calc' = [pc |-> "datagram", sent |-> m, data |-> encode(m),
                flipped |-> FALSE, cut |-> 0, extra |-> 0, got |-> NoMsg]
  /\ UNCHANGED prog_vars

\* The network inverts a bit of the datagram.
CodecFlip ==
  /\ calc.pc = "datagram"
  /\ ~calc.flipped /\ calc.cut = 0 /\ calc.extra = 0
  /\ \E k \in 1..Len(calc.data) :
       calc' = [calc EXCEPT !.data[k] = FlipBit(@), !.flipped = TRUE]
  /\ UNCHANGED prog_vars

\* The datagram loses its last byte.
CodecCut ==
  /\ calc.pc = "datagram"
  /\ calc.extra = 0 /\ calc.cut <= Len(MAGIC) /\ Len(calc.data) > 0
  /\ calc' = [calc EXCEPT !.data = SubSeq(@, 1, Len(@) - 1),
                          !.cut = @ + 1]
  /\ UNCHANGED prog_vars

\* A byte follows the datagram.
CodecAppend ==
  /\ calc.pc = "datagram"
  /\ calc.extra < MaxExtra
  /\ \E b \in ExtraBytes :
       calc' = [calc EXCEPT !.data = Append(@, b), !.extra = @ + 1]
  /\ UNCHANGED prog_vars

\* The datagram arrives at a socket of a peer or of the server.
CodecRecv ==
  /\ calc.pc = "datagram"
  /\ calc' = [calc EXCEPT !.pc = "received", !.got = recv_from(calc.data)]
  /\ UNCHANGED prog_vars

NextCodec ==
  CodecEncode \/ CodecFlip \/ CodecCut \/ CodecAppend \/ CodecRecv

SpecCodec == InitCodec /\ [][NextCodec]_vars

\* C14: the peer sends Register, Lookup or Hello only after
\* DetectSymmetricNat succeeded, that is after an Address reply of each
\* server was received and the two report the same address; when the two
\* addresses differ resolve returns the symmetric-nat error and run exits
\* with it, and no Register, Lookup or Hello has been or is ever sent.
C14_DetectFirst ==
  LET both == peer.addr1.some /\ peer.addr2.some
  IN  /\ (peer.log \cap {"Register", "Lookup", "Hello"} # {}
            \/ peer.pc \in {"register", "lookup", "main", "hello", "punch",
                            "sender", "sending", "done"}) =>
           (both /\ peer.addr1 = peer.addr2)
      /\ (both /\ peer.addr1 # peer.addr2) =>
           /\ peer.err = "symmetric nat"
           /\ peer.log \subseteq {"Query"}
           /\ \/ peer.pc = "exited"
              \/ peer.pc = "detect" /\ peer.op.pc = "returned"
                   /\ peer.op.ret = "resolve_error"
      /\ peer.err = "symmetric nat" => (both /\ peer.addr1 # peer.addr2)

\* Behind a symmetric NAT the two servers reported different addresses and
\* the peer has exited, having sent nothing but Query.
C14_Witness ==
  /\ peer.pc = "exited"
  /\ peer.err = "symmetric nat"
  /\ peer.addr1.some /\ peer.addr2.some
  /\ peer.addr1.v # peer.addr2.v
  /\ peer.log = {"Query"}

\* The last pass of the server handled a Lookup on socket 1 and its sends did
\* not fail (the pass left the registry as it was).
LookupPass ==
  /\ srv'.last.sock = 1
  /\ srv'.last.msg.type = "Lookup"
  /\ ~srv'.last.send_error

\* The initiator's part of C15: the initiator aborts with 'peer not found'
\* only on a Peer{addr: None} it received from the server, having sent no
\* Hello, and the server puts a Peer{addr: None} in flight only in a pass
\* that handles a Lookup of an id that is not registered, to the source of
\* the Lookup.
AbortsOnlyUnregistered ==
  /\ peer'.err = "peer not found" =>
       (peer'.pc = "exited" /\ "Hello" \notin peer'.log
          /\ peer'.found = NoneAddr)
  /\ (peer.pc = "lookup" /\ peer.op.pc = "waiting"
        /\ peer'.op.pc = "returned" /\ peer'.op.ret = "resolve_ok") =>
       \E d \in wire \ wire' :
         d.msg = Peer(peer'.found) /\ d.from = ServerAddr
  /\ \A d \in wire' \ wire :
       d.msg = Peer(NoneAddr) =>
         /\ peer' = peer
         /\ LookupPass
         /\ srv'.last.msg.peer_id \notin DOMAIN srv.peers
         /\ d.dst = srv'.last.src

\* C15 as stated: a Lookup of a registered peer is answered with exactly one
\* Request{peer_addr: src} to the recorded address and nothing to src, a
\* Lookup of an unregistered id with exactly one Peer{addr: None} to src and
\* nothing to a registered peer; the initiator aborts only when the id is
\* unregistered.
C15_NothingToSrc ==
  [][/\ LookupPass =>
          LET id == srv'.last.msg.peer_id
              src == srv'.last.src
              sent == srv'.last.sent
          IN  IF id \in DOMAIN srv'.peers
              THEN /\ sent = <<Sent(RdvRequest(src), srv'.peers[id].addr,
                                    ServerAddr)>>
                   /\ \A i \in 1..Len(sent) : sent[i].dst # src
              ELSE /\ sent = <<Sent(Peer(NoneAddr), src, ServerAddr)>>
                   /\ \A i \in 1..Len(sent) : \A k \in DOMAIN srv'.peers :
                        sent[i].dst # srv'.peers[k].addr
     /\ AbortsOnlyUnregistered
    ]_vars

\* C15, amended: a Lookup of a registered peer is answered with exactly one
\* datagram, Request{peer_addr: src} to the recorded address (to src only
\* when src is the recorded address), a Lookup of an unregistered id with
\* exactly one datagram, Peer{addr: None} to src; the initiator aborts with
\* 'peer not found', having sent no Hello, only when the id was unregistered.
C15_LookupRouting ==
  [][/\ LookupPass =>
          LET id == srv'.last.msg.peer_id
              src == srv'.last.src
              sent == srv'.last.sent
          IN  IF id \in DOMAIN srv'.peers
              THEN /\ sent = <<Sent(RdvRequest(src), srv'.peers[id].addr,
                                    ServerAddr)>>
                   /\ \A i \in 1..Len(sent) :
                        sent[i].dst = src => src = srv'.peers[id].addr
              ELSE sent = <<Sent(Peer(NoneAddr), src, ServerAddr)>>
     /\ AbortsOnlyUnregistered
    ]_vars

\* The initiator looked up an id nobody had registered and has aborted with
\* 'peer not found' without sending Hello.
C15_Witness ==
  /\ peer.role = "send"
  /\ peer.pc = "exited"
  /\ peer.err = "peer not found"
  /\ "Lookup" \in peer.log
  /\ "Hello" \notin peer.log
  /\ srv.last.msg.type = "Lookup"
  /\ srv.last.sent = <<Sent(Peer(NoneAddr), PeerLocal, ServerAddr)>>

\* The tasks in flight for the address a.
TasksFor(p, a) == {i \in DOMAIN p.tasks : p.tasks[i].peer_addr = a}

\* C19: at every moment at most one punch task is in flight per peer_addr
\* and its entry is in the map from the spawn until the task removes it on
\* exit; a Request for peer_addr spawns a task and inserts its inbox only
\* when no entry for peer_addr exists, and when an entry exists it posts
\* exactly one wake signal to that entry's inbox and spawns nothing.
C19_OneTaskPerPeer ==
  [][/\ \A a \in Initiators :
          /\ Cardinality(TasksFor(peer', a)) <= 1
          /\ a \in DOMAIN peer'.map <=> TasksFor(peer', a) # {}
          /\ a \in DOMAIN peer'.map => TasksFor(peer', a) = {peer'.map[a]}
     /\ IF peer'.recv.type = "Request"
        THEN LET a == peer'.recv.peer_addr
             IN  IF a \notin DOMAIN peer.map
                 THEN /\ \E i \in DOMAIN peer'.tasks \ DOMAIN peer.tasks :
                           /\ DOMAIN peer'.tasks = DOMAIN peer.tasks \cup {i}
                           /\ peer'.tasks[i] = NewTask(a)
                           /\ peer'.map[a] = i
                      /\ \A j \in DOMAIN peer.tasks :
                           peer'.tasks[j] = peer.tasks[j]
                 ELSE /\ peer'.map = peer.map
                      /\ DOMAIN peer'.tasks = DOMAIN peer.tasks
                      /\ \A j \in DOMAIN peer.tasks :
                           peer'.tasks[j] =
                             IF j = peer.map[a]
                             THEN [peer.tasks[j] EXCEPT !.queued = @ + 1]
                             ELSE peer.tasks[j]
        ELSE /\ DOMAIN peer'.tasks \subseteq DOMAIN peer.tasks
             /\ \A a \in DOMAIN peer.map :
                  IF a \in DOMAIN peer'.map
                  THEN peer'.map[a] = peer.map[a]
                  ELSE peer.tasks[peer.map[a]].pc = "returned"
    ]_vars

\* C20: whatever a punch task does (a failing or successful handle_punch,
\* its return, the removal of its entry) and whatever Requests arrive in
\* between, the responder's loop goes on (it ends only when its own recv or
\* its keepalive send fails), and a step that changes or ends one task leaves
\* every other task and its entry as they are.
C20_LoopSurvivesTasks ==
  [][/\ peer.pc = "main" =>
          (peer'.pc = "main" \/ peer'.err \in {"recv", "send"})
     /\ \A i \in DOMAIN peer.tasks :
          (i \notin DOMAIN peer'.tasks \/ peer'.tasks[i] # peer.tasks[i]) =>
            \A j \in DOMAIN peer.tasks \ {i} :
              /\ j \in DOMAIN peer'.tasks
              /\ peer'.tasks[j] = peer.tasks[j]
              /\ peer.tasks[j].peer_addr \in DOMAIN peer'.map
    ]_vars

\* The step is the recv_from arm of the initiator's loop, for the datagram d.
PunchReceives(d) ==
  /\ peer.pc = "punch"
  /\ peer' # peer
  /\ d \in wire \ wire'

\* C21: in the initiator's loop a datagram that is not a Hello from peer_addr
\* makes the initiator send Hello to peer_addr and stay in the loop (unless
\* the send fails in the OS); it never ends the punch, and Socket::send is
\* never called on the unconnected socket.
C21_OtherPacketsResendHello ==
  [][\A d \in wire :
       (PunchReceives(d) /\ ~(d.msg = Hello /\ d.from = peer.found.v)) =>
         /\ peer'.err \notin SendFailures
         /\ \/ peer'.err = "io"
            \/ /\ peer'.pc = "punch"
               /\ Len(peer'.out) = 1
               /\ peer'.out[1].msg = Hello
               /\ peer'.out[1].dst = peer.found.v
    ]_vars

\* C27: the first Hello of the initiator goes to peer_addr with TTL 6; the
\* saved TTL is restored before anything else is sent, and every later
\* datagram (Hello, HelloAck, the file sender's messages) leaves with the
\* original TTL.
C27_OnlyFirstHelloShortTtl ==
  [][/\ (peer.pc = "hello" /\ peer' # peer) =>
          /\ peer'.out # <<>> =>
               peer'.out[1] = Dgram(Hello, peer.found.v, PeerLocal, 6)
          /\ \A i \in 2..Len(peer'.out) : peer'.out[i].ttl = peer.sock_ttl
          /\ peer'.pc # "exited" =>
               /\ peer'.pc = "punch"
               /\ peer'.ttl = peer.sock_ttl
               /\ peer'.sock_ttl = peer.sock_ttl
               /\ Len(peer'.out) = 2
     /\ (peer.pc \in {"punch", "sender", "sending"} /\ peer' # peer) =>
          /\ peer'.sock_ttl = peer.ttl
          /\ peer.ttl = DefaultTtl
          /\ \A i \in 1..Len(peer'.out) : peer'.out[i].ttl = peer.ttl
    ]_vars

\* The punch is done and the file sender has sent a message with the
\* original TTL.
C27_Witness ==
  /\ peer.pc = "sending"
  /\ peer.ttl = DefaultTtl
  /\ peer.out = <<Dgram(Request(0), OtherTask, PeerLocal, DefaultTtl)>>
  /\ "HelloAck" \in peer.log

\* The messages of the file transfer.
FileKinds ==
  {"Request", "Response", "FilePart", "BlockComplete", "BlockCompleteAck",
   "BlockMissingChunk", "FileComplete", "FileCompleteAck"}

\* C28: the file sender runs only on a socket connected to peer_addr, and it
\* is started by the step that received a Hello from exactly peer_addr and
\* sent HelloAck; a Hello from another source never completes the punch; a
\* 100 ms tick that finds the deadline passed ends run with a timeout, and
\* file-transfer messages are sent only by the file sender.
C28_SenderAfterHello ==
  [][/\ peer'.pc \in {"sender", "sending", "done"} =>
          (peer'.found.some /\ peer'.connect = peer'.found.v)
     /\ (peer.pc # "sender" /\ peer'.pc = "sender") =>
          /\ peer.pc = "punch"
          /\ \E d \in wire \ wire' :
               d.msg = Hello /\ d.from = peer.found.v
          /\ peer'.out =
               <<Dgram(HelloAck, peer.found.v, PeerLocal, peer.sock_ttl)>>
     /\ \A d \in wire :
          (PunchReceives(d) /\ d.msg = Hello /\ d.from # peer.found.v) =>
            peer'.pc # "sender"
     /\ (peer'.past /\ ~peer.past) =>
          (peer.pc = "punch" /\ peer'.pc = "exited"
             /\ peer'.err = "timeout" /\ peer'.out = <<>>)
     /\ peer.pc = "exited" => peer' = peer
     /\ (peer' # peer
           /\ \E i \in 1..Len(peer'.out) :
                peer'.out[i].msg.type \in FileKinds) =>
          peer.pc \in {"sender", "sending"}
    ]_vars

\* A Hello from peer_addr has completed the punch: the socket is connected
\* to peer_addr and HelloAck was sent.
C28_Witness ==
  /\ peer.pc = "sender"
  /\ peer.connect = OtherTask
  /\ peer.found = SomeAddr(OtherTask)
  /\ peer.recv = Hello
  /\ peer.out = <<Dgram(HelloAck, OtherTask, PeerLocal, DefaultTtl)>>

\* C29: a punch task sends Hello only to its peer_addr and only once it has
\* received ResponseAck from the server or Hello from peer_addr (the two
\* flags rise on exactly these receptions); a 150 ms tick that finds the
\* deadline not passed resends Hello when server_ack is set and Response to
\* the server otherwise; every Hello sent while server_ack is set and no
\* Hello of the peer was received carries TTL 6.
C29_HelloAfterAck ==
  [][(peer' # peer /\ peer'.step.arm \in {"start", "recv", "wake", "tick"}) =>
       \E i \in TasksFor(peer, peer'.step.task) :
         LET t == peer.tasks[i]
             u == peer'.tasks[i]
             a == t.peer_addr
         IN  /\ \A k \in DOMAIN peer'.out :
                  peer'.out[k].msg = Hello =>
                    /\ peer'.out[k].dst = a
                    /\ u.acked \/ u.hello
                    /\ (u.server_ack /\ ~u.hello) =>
                         peer'.out[k].ttl = PunchTtl
             /\ (u.acked /\ ~t.acked) =>
                  /\ peer'.step.arm = "recv"
                  /\ peer'.recv = ResponseAck
                  /\ peer'.step.src = ServerAddr
             /\ (u.hello /\ ~t.hello) =>
                  /\ peer'.step.arm = "recv"
                  /\ peer'.recv = Hello
                  /\ peer'.step.src = a
             /\ (peer'.step.arm = "tick" /\ ~u.past) =>
                  /\ u = t
                  /\ peer'.out =
                       <<IF t.server_ack
                         THEN Dgram(Hello, a, TaskLocal(a), t.ttl)
                         ELSE Dgram(RdvResponse(a), ServerAddr, TaskLocal(a),
                                    t.ttl)>>
    ]_vars

\* A tick before the deadline has resent Hello with TTL 6 for a task that
\* has the server's ResponseAck and no Hello of the peer.
C29_Witness ==
  /\ peer.step.arm = "tick"
  /\ \E i \in TasksFor(peer, peer.step.task) :
       /\ peer.tasks[i].server_ack
       /\ ~peer.tasks[i].hello
       /\ ~peer.tasks[i].past
       /\ peer.out = <<Dgram(Hello, peer.step.task,
                             TaskLocal(peer.step.task), PunchTtl)>>

\* C30: a wake signal is consumed only by the wake arm and only while hello
\* is false; consuming it clears server_ack, restores the default TTL and
\* resends Response, after which ticks resend Response and server_ack rises
\* again only on a ResponseAck from the server; once hello is true no wake
\* arm runs for the task, and a signal posted to it changes neither its
\* flags nor its TTL and sends nothing.
C30_WakeOnlyBeforeHello ==
  [][peer' # peer =>
       /\ \A i \in DOMAIN peer.tasks \cap DOMAIN peer'.tasks :
            LET t == peer.tasks[i]
                u == peer'.tasks[i]
            IN  /\ (u.queued < t.queued /\ u.pc = "punch") =>
                     /\ peer'.step = Step("wake", t.peer_addr, NoAddr)
                     /\ ~t.hello
                /\ (u.server_ack /\ ~t.server_ack) =>
                     /\ peer'.step = Step("recv", t.peer_addr, ServerAddr)
                     /\ peer'.recv = ResponseAck
                /\ (t.hello /\ t.pc = "punch") =>
                     /\ peer'.step # Step("wake", t.peer_addr, NoAddr)
                     /\ u.queued > t.queued =>
                          /\ u = [t EXCEPT !.queued = @ + 1]
                          /\ peer'.out = <<>>
       /\ peer'.step.arm = "wake" =>
            \E i \in TasksFor(peer, peer'.step.task) :
              LET t == peer.tasks[i]
              IN  /\ ~t.hello
                  /\ t.queued > 0
                  /\ peer'.tasks[i] =
                       [t EXCEPT !.queued = @ - 1, !.server_ack = FALSE,
                                 !.ttl = DefaultTtl]
                  /\ peer'.out =
                       <<Dgram(RdvResponse(t.peer_addr), ServerAddr,
                               TaskLocal(t.peer_addr), DefaultTtl)>>
       /\ peer'.step.arm = "tick" =>
            \E i \in TasksFor(peer, peer'.step.task) :
              (~peer.tasks[i].server_ack /\ ~peer'.tasks[i].past) =>
                peer'.out =
                  <<Dgram(RdvResponse(peer.tasks[i].peer_addr), ServerAddr,
                          TaskLocal(peer.tasks[i].peer_addr),
                          peer.tasks[i].ttl)>>
    ]_vars

\* A task that had the server's ResponseAck has consumed a wake signal: its
\* server_ack is cleared, its TTL is the default and Response went out.
C30_Witness ==
  /\ peer.step.arm = "wake"
  /\ \E i \in TasksFor(peer, peer.step.task) :
       /\ peer.tasks[i].acked
       /\ ~peer.tasks[i].server_ack
       /\ ~peer.tasks[i].hello
       /\ peer.tasks[i].ttl = DefaultTtl
       /\ peer.out = <<Dgram(RdvResponse(peer.step.task), ServerAddr,
                             TaskLocal(peer.step.task), DefaultTtl)>>

\* C22: a datagram is delivered as a message only if it is the encoding of
\* that message (the serialized message, the 8 magic bytes, nothing else);
\* the encoding of every message is delivered as that message; a datagram
\* whose last 8 bytes are not the magic is never delivered.
C22_DecodeExactMagic ==
  calc.pc = "received" =>
    /\ calc.got # NoMsg => calc.data = encode(calc.got)
    /\ calc.data = encode(calc.sent) => calc.got = calc.sent
    /\ (Len(calc.data) < Len(MAGIC)
          \/ SubSeq(calc.data, Len(calc.data) - Len(MAGIC) + 1,
                    Len(calc.data)) # MAGIC) => calc.got = NoMsg

\* C23: after new(len) or reset(len), whatever the array held before, and
\* set(i) for the indices i of a set S in any order and any number of
\* times, collect_unset() is the ascending sequence of [0, len) \ S.
C23_CollectUnsetIsComplement ==
  calc.pc = "bits" =>
    collect_unset(calc.ba) =
      SelectSeq([k \in 1..calc.ba.len |-> k - 1], LAMBDA x : x \notin calc.S)

\* An array was reset to a shorter length that does not fill its last
\* word, and bits of it were set including one of the last word.
C23_Witness ==
  /\ calc.pc = "bits"
  /\ calc.old > calc.ba.len
  /\ calc.ba.len > WordBits
  /\ calc.ba.len % WordBits # 0
  /\ \E i \in calc.S : i >= WordBits
  /\ collect_unset(calc.ba) # <<>>

\* C24: for a file of size > 0 and a block size B > 0 the last block
\* (last, last_size) has 1 <= last_size <= B and
\* (last + 1) * B - (B - last_size) = size; the last chunk of a block
\* satisfies the same with the chunk size, and the writer's chunk count is
\* last_chunk + 1.
C24_LastIndexSize ==
  /\ calc.pc = "blocks" =>
       /\ ~calc.out.panic
       /\ 1 <= calc.out.last_size
       /\ calc.out.last_size <= calc.block_size
       /\ MulSmall(AddSmall(calc.out.last, 1), calc.block_size) =
            AddSmall(calc.file_size, calc.block_size - calc.out.last_size)
  /\ calc.pc = "chunks" =>
       /\ 1 <= calc.last_chunk_size
       /\ calc.last_chunk_size <= calc.chunk_size
       /\ (calc.last_chunk + 1) * calc.chunk_size
            - (calc.chunk_size - calc.last_chunk_size) = calc.block_size
       /\ calc.chunk_count = calc.last_chunk + 1

\* C25 as stated: the sender sends a FilePart or a BlockComplete of block
\* b + 1 only when it has received BlockCompleteAck(b), and it leaves a
\* block only in the step that receives the BlockCompleteAck of that block
\* (not on a BlockMissingChunk, a timeout or a message of another block).
C25_StopAndWait ==
  [][ev'.actor = "snd" =>
       /\ \A i \in DOMAIN ev'.sent :
            (ev'.sent[i].type \in {"FilePart", "BlockComplete"}
               /\ ev'.sent[i].block > 0) =>
              (ev'.sent[i].block - 1) \in snd'.acked
       /\ (snd.pc = "SendBlockComplete"
             /\ (snd'.block # snd.block \/ snd'.pc = "WaitComplete")) =>
            /\ ev'.kind = "recv"
            /\ ev'.msg = BlockCompleteAck(snd.block)
       /\ snd'.acked # snd.acked =>
            /\ ev'.kind = "recv"
            /\ ev'.msg = BlockCompleteAck(snd.block)
            /\ snd'.acked = snd.acked \cup {snd.block}
    ]_vars

\* C25 amended: the same, except that the block the Response names as the
\* start block is sent without a BlockCompleteAck of the block before it.
C25_StopAndWaitFromStart ==
  [][ev'.actor = "snd" =>
       /\ \A i \in DOMAIN ev'.sent :
            ev'.sent[i].type \in {"FilePart", "BlockComplete"} =>
              \/ ev'.sent[i].block = snd'.start_block
              \/ (ev'.sent[i].block - 1) \in snd'.acked
       /\ (snd.pc = "SendBlockComplete"
             /\ (snd'.block # snd.block \/ snd'.pc = "WaitComplete")) =>
            /\ ev'.kind = "recv"
            /\ ev'.msg = BlockCompleteAck(snd.block)
       /\ snd'.acked # snd.acked =>
            /\ ev'.kind = "recv"
            /\ ev'.msg = BlockCompleteAck(snd.block)
            /\ snd'.acked = snd.acked \cup {snd.block}
    ]_vars

\* The sender has received the BlockCompleteAck of a block and sent the
\* chunks of the next one.
C25_Witness ==
  /\ ev.actor = "snd"
  /\ ev.msg.type = "BlockCompleteAck"
  /\ ev.msg.block \in snd.acked
  /\ \E i \in DOMAIN ev.sent :
       /\ ev.sent[i].type = "FilePart"
       /\ ev.sent[i].block = ev.msg.block + 1

\* The messages C26 lists, for a receiver whose block in progress is cur.
Listed(m, cur) ==
  \/ m.type = "FilePart" /\ m.block # cur
  \/ m.type = "BlockComplete" /\ m.block # cur /\ m.block # cur - 1
  \/ m.type \in {"Request", "Response", "BlockCompleteAck",
                 "BlockMissingChunk", "FileComplete", "FileCompleteAck"}

\* C26: in the receiver's main loop a FilePart of another block, a
\* BlockComplete(b) with b neither the block in progress nor the one before
\* it, and a message of any other kind leave the chunk-presence map, the
\* block buffer, next_block and the files as they are and get no reply.
C26_IgnoredMessagesFrame ==
  [][(ev'.actor = "rcv" /\ ev'.kind \in {"recv", "inject"}
        /\ rcv.pc = "MainLoop" /\ Listed(ev'.msg, index(rcv))) =>
       /\ rcv'.write_flag = rcv.write_flag
       /\ rcv'.buf = rcv.buf
       /\ rcv'.next_block = rcv.next_block
       /\ rcv'.part = rcv.part
       /\ rcv'.final = rcv.final
       /\ ev'.sent = <<>>
    ]_vars


\* C31: a punch task leaves its loop for connect and the file receiver only
\* in the step that received HelloAck from peer_addr, or in a tick that found
\* the deadline passed with hello set, and hello is set only by a Hello from
\* peer_addr; a tick that finds the deadline passed with hello unset makes
\* handle_punch return a timeout, and a task that has returned never reaches
\* the file receiver.
C31_ReceiveOnlyAfterPunch ==
  [][\A i \in DOMAIN peer.tasks \cap DOMAIN peer'.tasks :
       LET t == peer.tasks[i]
           u == peer'.tasks[i]
           own == peer'.step.task = t.peer_addr
       IN  /\ (t.pc # "receive" /\ u.pc = "receive") =>
                /\ t.pc = "punch"
                /\ own
                /\ \/ /\ peer'.step.arm = "recv"
                      /\ peer'.recv = HelloAck
                      /\ peer'.step.src = t.peer_addr
                   \/ /\ peer'.step.arm = "tick"
                      /\ u.past
                      /\ t.hello
           /\ (~t.hello /\ u.hello) =>
                /\ own
                /\ peer'.step.arm = "recv"
                /\ peer'.recv = Hello
                /\ peer'.step.src = t.peer_addr
           /\ (t.pc = "punch" /\ own /\ peer'.step.arm = "tick"
                 /\ u.past /\ ~t.hello) =>
                (u.pc = "returned" /\ u.result = "timeout")
           /\ t.pc = "returned" => u.pc = "returned"]_vars

\* A task has left its loop in a tick past the deadline, with hello set.
C31_Witness ==
  \E i \in DOMAIN peer.tasks :
    /\ peer.tasks[i].pc = "receive"
    /\ peer.tasks[i].hello
    /\ peer.tasks[i].past
    /\ peer.step = Step("tick", peer.tasks[i].peer_addr, NoAddr)


\* C32: while the responder's loop runs, the time since Register was last
\* sent to the server never exceeds 30 s, whatever datagrams have arrived
\* from the server in between.
C32_KeepaliveEvery30s ==
  peer.pc = "main" => peer.since <= KEEPALIVE_SECS


\* C33: a pass of the server's loop that received Register{id} from src on
\* socket 1 leaves registry[id] = (src, now) whatever entry id had, leaves
\* every other entry as it was, and sends RegisterAck to src (unless that
\* send fails); every other step of the server (any other message on socket
\* 1, any message on socket 2, Register included, a failed recv_from) adds
\* no entry and changes no entry's address or last_seen.
C33_RegisterFrame ==
  [][LET l == srv'.last
         kept == \A i \in DOMAIN srv'.peers :
                   i \in DOMAIN srv.peers /\ srv'.peers[i] = srv.peers[i]
     IN  srv.pc = "loop" =>
           IF /\ srv' # srv
              /\ srv'.now = srv.now
              /\ l.sock = 1
              /\ l.msg.type = "Register"
           THEN /\ DOMAIN srv'.peers = DOMAIN srv.peers \cup {l.msg.id}
                /\ srv'.peers[l.msg.id] = [addr |-> l.src, seen |-> srv.now]
                /\ \A i \in DOMAIN srv.peers \ {l.msg.id} :
                     srv'.peers[i] = srv.peers[i]
                /\ l.send_error
                     \/ l.sent = <<Sent(RegisterAck, l.src, ServerAddr)>>
           ELSE kept]_vars

\* Peer 1, registered before peer 2, has registered again from another
\* address, which is the address the registry now holds.
C33_Witness ==
  /\ srv.pc = "loop"
  /\ srv.last.sock = 1
  /\ srv.last.msg = Register(1)
  /\ srv.last.src = Addr("q", 1)
  /\ DOMAIN srv.peers = {1, 2}
  /\ srv.peers[1].addr = Addr("q", 1)
  /\ srv.last.sent = <<Sent(RegisterAck, Addr("q", 1), ServerAddr)>>


\* C34: a punch task that has left its loop for connect and the file
\* receiver has a socket whose TTL is the default TTL saved at its start,
\* whatever ResponseAck, Hello and wake events came before and in whatever
\* order.
C34_DefaultTtlAtHandoff ==
  \A i \in DOMAIN peer.tasks :
    peer.tasks[i].pc = "receive" => peer.tasks[i].ttl = DefaultTtl


\* C35: the sender ends successfully only in the step in which it receives
\* FileComplete; the receiver sends FileComplete only when the file is at
\* the final path with its full size; so whenever the sender has ended
\* successfully the final path holds a file of the sender's size.
C35_SuccessAfterComplete ==
  [][LET whole == /\ rcv'.final.exists
                  /\ Len(rcv'.final.data) = snd.file_size
     IN  /\ (snd.pc # "done" /\ snd'.pc = "done") =>
              /\ ev'.actor = "snd"
              /\ ev'.kind = "recv"
              /\ ev'.msg = FileComplete
         /\ (ev'.actor = "rcv"
               /\ \E k \in 1..Len(ev'.sent) : ev'.sent[k] = FileComplete) =>
              whole
         /\ snd'.pc = "done" => whole]_vars

\* The sender has ended successfully on the FileComplete that followed the
\* commit of the last block of a file of several blocks.
C35_Witness ==
  /\ snd.pc = "done"
  /\ snd.file_size > conf.BLOCK_SIZE
  /\ ~part0.exists
  /\ ev.actor = "snd"
  /\ ev.msg = FileComplete
  /\ rcv.final = File(SourceFile(snd.file_size))


\* C36: the completion handshake of the receiver, begun with the file at
\* the final path, ends and ends in success: from perform(SendComplete) the
\* receiver goes nowhere but to success, on a FileCompleteAck or on the
\* timer expiry that finds the retry budget spent; each FileComplete after
\* the first is sent on a timer expiry that raises the attempt counter,
\* which never exceeds RETRY_COUNT, so FileComplete is sent at most
\* 1 + RETRY_COUNT times; and perform(SendComplete) always returns.
C36_CompletionSucceeds ==
  /\ [][LET sends == \E k \in 1..Len(ev'.sent) : ev'.sent[k] = FileComplete
        IN  /\ rcv.pc = "SendComplete" =>
                 /\ rcv.final.exists
                 /\ rcv.attempt <= RETRY_COUNT
                 /\ rcv'.pc \in {"SendComplete", "done"}
                 /\ rcv'.final = rcv.final
            /\ (rcv.pc = "SendComplete" /\ rcv'.pc = "done") =>
                 /\ ev'.actor = "rcv"
                 /\ ~sends
                 /\ \/ ev'.kind = "recv" /\ ev'.msg = FileCompleteAck
                    \/ ev'.kind = "timer" /\ rcv.attempt = RETRY_COUNT
            /\ (ev'.actor = "rcv" /\ sends) =>
                 /\ rcv'.pc = "SendComplete"
                 /\ ev'.sent[Len(ev'.sent)] = FileComplete
                 /\ IF rcv.pc = "SendComplete"
                    THEN /\ ev'.kind = "timer"
                         /\ ev'.sent = <<FileComplete>>
                         /\ rcv'.attempt = rcv.attempt + 1
                    ELSE rcv'.attempt = 0]_vars
  /\ (rcv.pc = "SendComplete" ~> rcv.pc = "done")

\* The receiver has ended successfully on the expiry of its retry budget:
\* the sender, which never received FileComplete, has failed.
C36_Witness ==
  /\ rcv.pc = "done"
  /\ rcv.final.exists
  /\ ev.actor = "rcv"
  /\ ev.kind = "timer"
  /\ snd.pc = "error"
  /\ snd.file_size > 0

====
